---- MODULE Spec2Model ----
(***************************************************************************)
(* Model of the RoModerate REST route layer (server/routes.ts): bans,      *)
(* appeals, tickets, moderator shifts, the ban-appeal webhook and the      *)
(* marketplace transaction/escrow rows.  Each route handler is one action; *)
(* the handlers that a concurrency property is about are additionally      *)
(* split at their awaits in a separate specification.                      *)
(***************************************************************************)
EXTENDS Integers, Sequences, FiniteSets, TLC

\* ------------------------------------------------------------------ bounds
MaxAppeals == 1
MaxTime == 2

\* ------------------------------------------------------------ fixed data
NoUser == "anon"
Users == {"u1", "u2"}
Servers == {"s1", "s2"}
RobloxUsers == {"r1"}
NoExpiry == -1
KeepField == -2
\* req.body.duration in days; 0 stands for a tempban request without duration
Durations == {0, 1}
NoBan == [exists |-> FALSE]

\* servers.owner_id of the two server rows
ownerId == [s \in Servers |-> IF s = "s1" THEN "u1" ELSE "u2"]
\* server_members rows: u2 (owner of s2) is also a moderator of s1
serverMembers == {<<"u2", "s1">>}
\* server.settings.robloxApiKey && server.settings.robloxUniverseId
robloxConfigured == [s \in Servers |-> s = "s1"]
\* api_keys rows: key -> server_id ; "bad" has no row
ApiKeys == {"k1", "k2", "bad"}
keyServer == [k \in {"k1", "k2"} |-> IF k = "k1" THEN "s1" ELSE "s2"]

\* bans_server_roblox_user_unique allows one row per (server_id, roblox_user_id):
\* a ban row is identified here by that pair
BanIds == Servers \X RobloxUsers

VARIABLES
  bans,     \* bans table: BanIds -> row or NoBan
  appeals,  \* appeals table, in insertion order; the id is the index
  now,      \* Date.now()
  resp,     \* the request handled by the last step and its answer
  whPc,     \* callBanAppealWebhook: position of the call in progress
  whClock,  \* callBanAppealWebhook: elapsed milliseconds
  whLog,    \* callBanAppealWebhook: the POST attempts of the current call
  whResult, \* callBanAppealWebhook: success of the returned object
  whCalls,  \* callBanAppealWebhook: number of calls made
  tickets,  \* tickets table, in insertion order; the id is the index
  closer,   \* per ticket, the user whose PATCH last moved it from a non-closed status to 'closed'
  shifts,   \* shifts table, in insertion order; the id is the index
  inflight, \* requests suspended at an await, per connection
  transactions, \* marketplace transactions table; the id is the index
  escrows,  \* marketplace escrow table; the id is the index
  txLogs,   \* marketplace transaction log
  clock,    \* Date.now() in seconds, as the session layer reads it
  jumps,    \* number of times the clock has advanced
  sessions, \* the sessions map: token -> {userId, expiresAt}
  issued,   \* per token ever returned by createSession, the entry it stored
  loggedOut, \* the tokens GET /api/auth/logout has been called with
  oauthStates, \* the oauthStates map: nonce -> {expiresAt}
  nonces,   \* number of nonces GET /api/auth/discord has generated
  consumed, \* the nonces a callback has accepted
  userRows, \* users table: Users -> row or NoRow
  members,  \* server_members: the number of rows per <<userId, serverId, via>>, via
            \* being the invite whose redemption created the row (0 for none)
  guildServers, \* servers table keyed by discord_server_id: Guilds -> row or NoRow
  invites,  \* invite_codes table, in insertion order; the code is the index
  wsState,  \* per client of wsClients: its readyState, "open" or "closing"
  wsInbox,  \* per client of wsClients: the types of the messages sent to it
  listings, \* marketplace listings table, in insertion order
  location,        \* browser: the path the router shows
  meUser,          \* browser: data of the ["/api/auth/me"] query
  meStale,         \* browser: the query was invalidated and is being refetched
  showTosModal,    \* create-listing page state
  tosJustAccepted, \* create-listing page state, as of the last render
  agreed,          \* modal checkbox
  acceptTosMutation, \* "idle", "pending", "success" or "error"
  admins,     \* admin table, in insertion order
  seed,       \* seedAdminUser of the running server process
  startups,   \* number of server startups so far
  serverRows, \* per server: the settings object and the name of its row
  writers,    \* requests that update a server row, between their awaits
  more        \* the state of the remaining areas, one field each: env, banRows,
              \* childRows, apiKeyRows, wizard and adminSessions

\* server/env.ts: process.env, the .env file and the load in progress
env == more.env
\* the rows of the bans table as the database holds them, in insertion order
banRows == more.banRows
\* server_members and invite_codes rows of the servers s1 and s2 ever created,
\* in insertion order; the id is the index
childRows == more.childRows
\* api_keys rows ever created, in insertion order; the id is the index
apiKeyRows == more.apiKeyRows
\* browser: the onboarding page, its mutations and the requests it sent
wizard == more.wizard
\* the adminSessions Map: per token issued the admin id, 0 once gone
adminSessions == more.adminSessions

modVars == <<bans, appeals>>
whVars == <<whPc, whClock, whLog, whResult, whCalls>>
ticketVars == <<tickets, closer>>
shiftVars == <<shifts, inflight>>
marketVars == <<transactions, escrows, txLogs>>
sessionVars == <<sessions, issued, loggedOut>>
oauthVars == <<oauthStates, nonces, consumed>>
accountVars == <<userRows, members, guildServers, invites>>
authVars == <<clock, jumps, sessionVars, oauthVars, accountVars>>
wsVars == <<wsState, wsInbox>>
\* the state no route of the first areas touches
pageVars == <<location, meUser, meStale, showTosModal, tosJustAccepted, agreed,
              acceptTosMutation>>
seedVars == <<admins, seed, startups>>
settingsVars == <<serverRows, writers>>
moreVars == <<more>>
lateVars == <<seedVars, settingsVars, moreVars>>
restVars == <<authVars, listings, pageVars, lateVars>>

\* what the routes of one area leave alone
notMod == <<whVars, ticketVars, shiftVars, marketVars, restVars>>
notWh == <<modVars, now, resp, ticketVars, shiftVars, marketVars, restVars, wsVars>>
notTicket == <<modVars, whVars, shiftVars, marketVars, restVars>>
notShift == <<modVars, whVars, ticketVars, marketVars, restVars>>
notMarket == <<modVars, whVars, ticketVars, shiftVars, restVars, wsVars>>
notAuthPage == <<modVars, now, whVars, ticketVars, shiftVars, marketVars, wsVars, listings,
                 lateVars>>
notLate == <<modVars, now, whVars, ticketVars, shiftVars, marketVars, authVars, wsVars,
             listings, pageVars>>
notAuth == <<notAuthPage, pageVars>>
notPage == <<resp, authVars, notAuthPage>>
notWs == <<modVars, now, whVars, ticketVars, shiftVars, marketVars, restVars>>
notMore == <<modVars, now, whVars, ticketVars, shiftVars, marketVars, authVars, wsVars,
             listings, pageVars, seedVars, settingsVars>>

vars == <<modVars, now, resp, whVars, ticketVars, shiftVars, marketVars, authVars, wsVars,
          listings, pageVars, lateVars>>

\* ---------------------------------------------------------------- helpers
NoId == <<>>

\* What the last answered request returned: route, status code, the user the
\* returned row names (reviewedBy, userId, buyerId; NoUser where the row names
\* none of the modelled users), the ban (for a login: the permissions Discord
\* reported per guild) and the numbered row (appeal, ticket, shift, transaction,
\* escrow) addressed, req.body.status, and the boolean of the answer.
Resp(route, code, user, ban, id, status, flag) ==
  [route |-> route, code |-> code, user |-> user, ban |-> ban,
   id |-> id, status |-> status, flag |-> flag]

NoResp == Resp("none", 0, NoUser, NoId, 0, "", FALSE)

\* res.status(code).json({ error })
Err(code, error) == Resp("error", code, NoUser, NoId, 0, error, FALSE)

\* res.status(401).json({ error: "Not authenticated" }) of the session check
Unauthorized == Err(401, "Not authenticated")

Ban(s, r, active, exp) ==
  [exists |-> TRUE, serverId |-> s, robloxUserId |-> r, isActive |-> active, expiresAt |-> exp]

Exists(id) == id \in BanIds /\ bans[id].exists

\* storage.getBanByRobloxUserId(serverId, robloxUserId): id of the row, NoId if none
GetBanByRobloxUserId(s, r) == IF Exists(<<s, r>>) THEN <<s, r>> ELSE NoId

\* bans_server_roblox_user_unique: INSERT of a second row for the pair fails
CanInsertBan(s, r) == ~Exists(<<s, r>>)

\* server.ownerId === user.id || getServerMemberByUserAndServer(user.id, serverId)
IsOwnerOrMember(u, s) == ownerId[s] = u \/ <<u, s>> \in serverMembers

IsExpired_NonStrict(b, t) == b.expiresAt # NoExpiry /\ b.expiresAt <= t

\* ban.expiresAt && new Date(ban.expiresAt) < new Date()
IsExpired(b, t) == b.expiresAt # NoExpiry /\ b.expiresAt < t

\* ---------------------------------------------------- WebSocket broadcast
MaxMsgs == 3
WsClients == {"c1", "c2"}

\* the broadcastToClients calls a handler makes on the way to its answer r, by
\* the type of the message, in the order of the calls
EventsOf(r) ==
  IF r.code # 200 THEN <<>>
  ELSE CASE r.route = "PostBan" -> <<"ban_created">>
         [] r.route = "PatchBan" -> <<"ban_updated">>
         [] r.route \in {"ban", "tempban"} -> <<"ban_created">>
         [] r.route = "warn" -> <<"warning_issued">>
         [] r.route = "unban" -> <<"ban_removed">>
         [] r.route = "CheckBan" -> IF r.flag THEN <<"ban_check">> ELSE <<>>
         [] r.route = "PostAppeal" -> <<"appeal_created">>
         [] r.route = "PatchAppeal" ->
              IF r.status = "approved" THEN <<"ban_removed", "appeal_updated">>
              ELSE <<"appeal_updated">>
         [] r.route = "PostTicket" -> <<"ticket_created">>
         [] r.route = "PatchTicket" -> <<"ticket_updated">>
         [] r.route = "StartShift" -> <<"shift_started">>
         [] r.route = "EndShift" -> <<"shift_ended">>
         [] OTHER -> <<>>

\* broadcastToClients: client.send(message) for the clients of wsClients whose
\* readyState is OPEN
Deliver(events) ==
  [c \in DOMAIN wsInbox |-> IF wsState[c] = "open" THEN wsInbox[c] \o events ELSE wsInbox[c]]

\* the broadcasts of the handler that answers resp'
Broadcasts ==
  /\ wsState' = wsState
  /\ IF DOMAIN wsState = {}
     THEN wsInbox' = wsInbox
     ELSE /\ wsInbox' = Deliver(EventsOf(resp'))
          /\ \A c \in DOMAIN wsInbox : Len(wsInbox'[c]) <= MaxMsgs

\* -------------------------------------------------------------- bans
\* POST /api/bans
PostBan(u, s, r, exp) ==
  /\ UNCHANGED <<appeals, now, notMod>>
  /\ IF ownerId[s] # u
     THEN resp' = Err(403, "Not authorized") /\ UNCHANGED bans
     ELSE IF ~CanInsertBan(s, r)
     THEN resp' = Err(500, "bans_server_roblox_user_unique") /\ UNCHANGED bans
     ELSE /\ bans' = [bans EXCEPT ![<<s, r>>] = Ban(s, r, TRUE, exp)]
          /\ resp' = Resp("PostBan", 200, NoUser, <<s, r>>, 0, "", FALSE)
  /\ Broadcasts

\* req.body of PATCH /api/bans/:id, restricted to the two modelled columns
BanPatchBodies ==
  {[isActive |-> "keep", expiresAt |-> 1],
   [isActive |-> "true", expiresAt |-> KeepField],
   [isActive |-> "false", expiresAt |-> KeepField]}

\* storage.updateBan(id, req.body)
ApplyBanPatch(b, body) ==
  [b EXCEPT !.isActive = IF body.isActive = "keep" THEN @ ELSE body.isActive = "true",
            !.expiresAt = IF body.expiresAt = KeepField THEN @ ELSE body.expiresAt]

\* PATCH /api/bans/:id
PatchBan(u, id, body) ==
  /\ UNCHANGED <<appeals, now, notMod>>
  /\ IF ~Exists(id)
     THEN resp' = Err(404, "Ban not found") /\ UNCHANGED bans
     ELSE IF ownerId[bans[id].serverId] # u
     THEN resp' = Err(403, "Not authorized") /\ UNCHANGED bans
     ELSE /\ bans' = [bans EXCEPT ![id] = ApplyBanPatch(@, body)]
          /\ resp' = Resp("PatchBan", 200, NoUser, id, 0, body.isActive, FALSE)
  /\ Broadcasts

\* actionType === "tempban" && duration
HasDuration(actionType, duration) == actionType = "tempban" /\ duration # 0

\* banData of case "ban"/"tempban" written over an existing row
ReBanUpdate(b, actionType, duration, t) ==
  [b EXCEPT !.isActive = TRUE,
            !.expiresAt = IF HasDuration(actionType, duration) THEN t + duration ELSE @]

UnbanUpdate_Reactivates(b) == [b EXCEPT !.isActive = TRUE]

\* updateBan(banToRemove.id, {isActive: false, metadata: {...}}) of case "unban"
UnbanUpdate(b) == [b EXCEPT !.isActive = FALSE]

\* POST /api/moderation/action
ModerationAction(u, s, r, actionType, duration) ==
  /\ UNCHANGED <<appeals, now, notMod>>
  /\ IF ~IsOwnerOrMember(u, s)
     THEN resp' = Err(403, "Not authorized for this server") /\ UNCHANGED bans
     ELSE LET existing == GetBanByRobloxUserId(s, r) IN
       CASE actionType \in {"ban", "tempban"} ->
              IF existing # NoId
              THEN /\ bans' = [bans EXCEPT ![existing] = ReBanUpdate(@, actionType, duration, now)]
                   /\ resp' = Resp(actionType, 200, NoUser, existing, 0, "", FALSE)
              ELSE /\ bans' = [bans EXCEPT ![<<s, r>>] = Ban(s, r, TRUE,
                                 IF HasDuration(actionType, duration)
                                 THEN now + duration ELSE NoExpiry)]
                   /\ resp' = Resp(actionType, 200, NoUser, <<s, r>>, 0, "", FALSE)
         [] actionType = "warn" ->
              IF ~CanInsertBan(s, r)
              THEN resp' = Err(500, "bans_server_roblox_user_unique") /\ UNCHANGED bans
              ELSE /\ bans' = [bans EXCEPT ![<<s, r>>] = Ban(s, r, FALSE, NoExpiry)]
                   /\ resp' = Resp(actionType, 200, NoUser, <<s, r>>, 0, "", FALSE)
         [] actionType = "unban" ->
              IF existing # NoId
              THEN /\ bans' = [bans EXCEPT ![existing] = UnbanUpdate(@)]
                   /\ resp' = Resp(actionType, 200, NoUser, existing, 0, "", FALSE)
              ELSE resp' = Err(404, "No active ban found for this player") /\ UNCHANGED bans
  /\ Broadcasts

\* updateBan(ban.id, {isActive: false}) of the expired branch of check-ban
ExpireUpdate(b) == [b EXCEPT !.isActive = FALSE]

\* GET /api/game/check-ban/:robloxUserId ; flag is the isBanned of the answer
CheckBan(k, r) ==
  /\ UNCHANGED <<appeals, now, notMod>>
  /\ IF k \notin DOMAIN keyServer
     THEN resp' = Err(401, "Invalid API key") /\ UNCHANGED bans
     ELSE LET id == GetBanByRobloxUserId(keyServer[k], r) IN
          IF id = NoId
          THEN resp' = Resp("CheckBan", 200, NoUser, NoId, 0, "", FALSE) /\ UNCHANGED bans
          ELSE IF IsExpired(bans[id], now)
          THEN /\ bans' = [bans EXCEPT ![id] = ExpireUpdate(@)]
               /\ resp' = Resp("CheckBan", 200, NoUser, id, 0, "", FALSE)
          ELSE /\ resp' = Resp("CheckBan", 200, NoUser, id, 0, "", TRUE)
               /\ UNCHANGED bans
  /\ Broadcasts

\* ------------------------------------------------------------ appeals
Appeal(b, s) == [banId |-> b, serverId |-> s, status |-> "pending"]

\* POST /api/appeals
PostAppeal(u, banId, s) ==
  /\ UNCHANGED <<bans, now, notMod>>
  /\ IF ~Exists(banId)
     THEN resp' = Err(500, "appeals.ban_id REFERENCES bans(id)") /\ UNCHANGED appeals
     ELSE /\ Len(appeals) < MaxAppeals
          /\ appeals' = Append(appeals, Appeal(banId, s))
          /\ resp' = Resp("PostAppeal", 200, NoUser, banId, Len(appeals) + 1, "pending", FALSE)
  /\ Broadcasts

\* req.body.status of PATCH /api/appeals/:id
AppealStatuses == {"pending", "approved", "rejected"}
\* robloxCloud.unbanUser(...).success
RobloxOutcomes == {"ok", "fail"}

AppealBanDeactivate_Skipped(b) == b

\* storage.updateBan(ban.id, {isActive: false})
AppealBanDeactivate(b) == [b EXCEPT !.isActive = FALSE]

\* robloxCloud.unbanUser is called only for an approval on a server that has
\* robloxApiKey and robloxUniverseId in its settings
UnbanOutcomes(a, status) ==
  IF status = "approved" /\ robloxConfigured[a.serverId] THEN RobloxOutcomes ELSE {"none"}

\* storage.updateAppeal(id, {status, reviewNote, reviewedBy, reviewedAt})
AppealUpdate(a, status) == [a EXCEPT !.status = status]

\* server.ownerId !== req.user.id, for the server of appeal.serverId
AppealAuthorized(u, a) == ownerId[a.serverId] = u

\* PATCH /api/appeals/:id ; flag is robloxUnbanned of the answer
PatchAppeal(u, id, status) ==
  /\ UNCHANGED <<now, notMod>>
  /\ IF id \notin DOMAIN appeals
     THEN resp' = Err(404, "Appeal not found") /\ UNCHANGED <<bans, appeals>>
     ELSE IF ~AppealAuthorized(u, appeals[id])
     THEN resp' = Err(403, "Not authorized") /\ UNCHANGED <<bans, appeals>>
     ELSE IF ~Exists(appeals[id].banId)
     THEN resp' = Err(404, "Associated ban not found") /\ UNCHANGED <<bans, appeals>>
     ELSE LET b == appeals[id].banId IN
          /\ bans' = IF status = "approved"
                     THEN [bans EXCEPT ![b] = AppealBanDeactivate(@)]
                     ELSE bans
          /\ appeals' = [appeals EXCEPT ![id] = AppealUpdate(@, status)]
          /\ \E unban \in UnbanOutcomes(appeals[id], status) :
               resp' = Resp("PatchAppeal", 200, u, b, id, status, unban = "ok")
  /\ Broadcasts

\* requireAuth (and the same check at the head of POST /api/moderation/action)
\* answering a request whose session cookie identifies no user
RequireAuthReject ==
  /\ resp' = Unauthorized
  /\ UNCHANGED <<modVars, now, notMod>>
  /\ Broadcasts

\* passage of time between requests (Date.now())
Tick ==
  /\ now < MaxTime
  /\ now' = now + 1
  /\ resp' = NoResp
  /\ UNCHANGED <<modVars, notMod>>
  /\ Broadcasts

\* no webhook call in progress
WhIdle ==
  /\ whPc = "idle"
  /\ whClock = 0
  /\ whLog = <<>>
  /\ whResult = "none"
  /\ whCalls = 0

\* empty bans and appeals tables
ModEmpty ==
  /\ bans = [id \in BanIds |-> NoBan]
  /\ appeals = <<>>

MaxInflight == 2
\* requests the server can have suspended at an await at the same time
Conns == 1..MaxInflight
IdleConn == [pc |-> "idle"]

\* empty tickets table
TicketsEmpty ==
  /\ tickets = <<>>
  /\ closer = <<>>

\* empty shifts table, no request in progress
ShiftsEmpty ==
  /\ shifts = <<>>
  /\ inflight = [c \in Conns |-> IdleConn]

\* empty marketplace tables
MarketEmpty ==
  /\ transactions = <<>>
  /\ escrows = <<>>
  /\ txLogs = <<>>

\* Discord guilds a login can report as managed; a servers row is keyed by the
\* guild id
Guilds == {"g1"}
\* a table slot without a row, an absent cookie, nonce or invite code
NoRow == [exists |-> FALSE]
NoToken == 0

\* empty session and OAuth-state maps, no user, membership, server or invite rows
AuthEmpty ==
  /\ clock = 0
  /\ jumps = 0
  /\ sessions = <<>>
  /\ issued = <<>>
  /\ loggedOut = {}
  /\ oauthStates = <<>>
  /\ nonces = 0
  /\ consumed = {}
  /\ userRows = [u \in Users |-> NoRow]
  /\ members = <<>>
  /\ guildServers = [g \in Guilds |-> NoRow]
  /\ invites = <<>>

\* no WebSocket client connected
\* the browser opens /marketplace/create: useState(false) for every page state
CreatePath == "/marketplace/create"
MarketPath == "/marketplace"
PageMounted ==
  /\ showTosModal = FALSE
  /\ tosJustAccepted = FALSE
  /\ agreed = FALSE
  /\ acceptTosMutation = "idle"
PageEmpty ==
  /\ location = CreatePath
  /\ meUser = "loading"
  /\ meStale = FALSE
  /\ PageMounted

\* no server process has started and the admin table is empty
NoSeed == [pc |-> "off"]
SeedEmpty ==
  /\ admins = <<>>
  /\ seed = NoSeed
  /\ startups = 0

\* server rows as created: settings {} and the guild name; a settings object is
\* the set of its <<key, value>> pairs
MaxWriters == 2
Absent == "absent"
NoSettings == {}
SettingsEmpty ==
  /\ serverRows = [s \in Servers |-> [settings |-> NoSettings, name |-> "n0"]]
  /\ writers = <<>>

WsEmpty ==
  /\ wsState = <<>>
  /\ wsInbox = <<>>

\* the onboarding page is not open
WizardClosed == [pc |-> "closed"]

\* server/env.ts has not been imported yet
EnvOff == [pc |-> "off"]

Init ==
  /\ ModEmpty
  /\ now = 1
  /\ resp = NoResp
  /\ WhIdle
  /\ TicketsEmpty
  /\ ShiftsEmpty
  /\ MarketEmpty
  /\ AuthEmpty
  /\ WsEmpty
  /\ listings = <<>>
  /\ PageEmpty
  /\ SeedEmpty
  /\ SettingsEmpty
  /\ more = [env |-> EnvOff, banRows |-> <<>>, childRows |-> <<>>, apiKeyRows |-> <<>>,
             wizard |-> WizardClosed, adminSessions |-> <<>>]

Next ==
  \/ RequireAuthReject
  \/ \E u \in Users, s \in Servers, r \in RobloxUsers, e \in {NoExpiry, 1} : PostBan(u, s, r, e)
  \/ \E u \in Users, id \in BanIds, body \in BanPatchBodies : PatchBan(u, id, body)
  \/ \E u \in Users, s \in Servers, r \in RobloxUsers, a \in {"ban", "warn", "unban"} :
        ModerationAction(u, s, r, a, 0)
  \/ \E u \in Users, s \in Servers, r \in RobloxUsers, d \in Durations :
        ModerationAction(u, s, r, "tempban", d)
  \/ \E k \in ApiKeys, r \in RobloxUsers : CheckBan(k, r)
  \* the appellant is any logged-in user and is not read by the handler
  \/ \E b \in BanIds, s \in Servers : PostAppeal("u2", b, s)
  \/ \E u \in Users, id \in 1..MaxAppeals, st \in AppealStatuses : PatchAppeal(u, id, st)
  \/ Tick

Spec == Init /\ [][Next]_vars

TypeOK ==
  /\ Len(appeals) <= MaxAppeals
  /\ now \in 1..MaxTime

\* ------------------------------------------------ callBanAppealWebhook
MaxCalls == 2
\* setTimeout(() => controller.abort(), 5000)
TimeoutMs == 5000
\* setTimeout(resolve, 1000)
RetryDelayMs == 1000
\* what a fetch can end in: an OK response, a non-OK status, a network error,
\* or (first attempt only) the abort of the 5 s timer
FetchOutcomes == {"ok", "status", "network", "timeout"}

\* durations a fetch can take before the abort timer fires
ShortDurations == {0, 2000, TimeoutMs - 1000}
\* durations of the retry, which has no abort signal
LongDurations == {0, 3000, TimeoutMs + 1000}
\* the retry timer fires no earlier than its delay
DelayDurations == {RetryDelayMs, 2 * RetryDelayMs}

Attempt(start, end, outcome) == [start |-> start, end |-> end, outcome |-> outcome]

FirstAttemptFailed_Always(outcome) == TRUE

\* !response.ok throws, as do a rejected fetch and the abort: control enters catch
FirstAttemptFailed(outcome) == outcome # "ok"

RetrySucceeded_Never(outcome) == FALSE

\* if (response.ok) return { success: true } of the retry
RetrySucceeded(outcome) == outcome = "ok"

\* a caller invokes callBanAppealWebhook(webhookUrl, appeal, ban, action)
WhCall ==
  /\ whPc \in {"idle", "done"}
  /\ whCalls < MaxCalls
  /\ whCalls' = whCalls + 1
  /\ whPc' = "first"
  /\ whLog' = <<>>
  /\ whResult' = "none"
  /\ UNCHANGED <<whClock, notWh>>

\* first fetch, with the AbortController signal
WhFirstFetch(outcome, d) ==
  /\ whPc = "first"
  /\ (outcome = "timeout") <=> (d = TimeoutMs)
  /\ whLog' = Append(whLog, Attempt(whClock, whClock + d, outcome))
  /\ whClock' = whClock + d
  /\ IF FirstAttemptFailed(outcome)
     THEN whPc' = "delay" /\ UNCHANGED whResult
     ELSE whPc' = "done" /\ whResult' = "success"
  /\ UNCHANGED <<whCalls, notWh>>

\* await new Promise(resolve => setTimeout(resolve, 1000))
WhDelay(w) ==
  /\ whPc = "delay"
  /\ whClock' = whClock + w
  /\ whPc' = "retry"
  /\ UNCHANGED <<whLog, whResult, whCalls, notWh>>

\* second fetch, without a signal; whatever it ends in, the function returns
WhRetryFetch(outcome, d) ==
  /\ whPc = "retry"
  /\ outcome # "timeout"
  /\ whLog' = Append(whLog, Attempt(whClock, whClock + d, outcome))
  /\ whClock' = whClock + d
  /\ whPc' = "done"
  /\ whResult' = IF RetrySucceeded(outcome) THEN "success" ELSE "failure"
  /\ UNCHANGED <<whCalls, notWh>>

NextWebhook ==
  \/ WhCall
  \/ \E o \in FetchOutcomes, d \in ShortDurations \cup {TimeoutMs} : WhFirstFetch(o, d)
  \/ \E w \in DelayDurations : WhDelay(w)
  \/ \E o \in FetchOutcomes, d \in LongDurations : WhRetryFetch(o, d)

SpecWebhook == Init /\ [][NextWebhook]_vars

\* ------------------------------------------------------------ tickets
MaxTickets == 1
NoTime == 0

Ticket(s) == [serverId |-> s, status |-> "open", closedBy |-> NoUser, closedAt |-> NoTime]

\* POST /api/tickets
PostTicket(u, s) ==
  /\ UNCHANGED <<now, notTicket>>
  /\ IF ownerId[s] # u
     THEN resp' = Err(403, "Not authorized") /\ UNCHANGED ticketVars
     ELSE /\ Len(tickets) < MaxTickets
          /\ tickets' = Append(tickets, Ticket(s))
          /\ closer' = Append(closer, NoUser)
          /\ resp' = Resp("PostTicket", 200, u, NoId, Len(tickets) + 1, "open", FALSE)
  /\ Broadcasts

\* req.body of PATCH /api/tickets/:id, restricted to the three modelled columns;
\* "keep" and KeepField stand for a body without the field, NoUser and NoTime for null
TicketPatchBodies ==
  [status : {"keep", "open", "closed"},
   closedBy : {"keep", NoUser, "u1", "u2"},
   closedAt : {KeepField, NoTime}]

\* req.body.status === "closed" && ticket.status !== "closed"
IsClosing(t, body) == body.status = "closed" /\ t.status # "closed"

\* updateData = {...req.body}, with closedBy and closedAt overwritten when closing
TicketUpdateData(t, body, u, time) ==
  IF IsClosing(t, body)
  THEN [status |-> body.status, closedBy |-> u, closedAt |-> time]
  ELSE body

\* storage.updateTicket(id, updateData)
ApplyTicketPatch(t, data) ==
  [t EXCEPT !.status = IF data.status = "keep" THEN @ ELSE data.status,
            !.closedBy = IF data.closedBy = "keep" THEN @ ELSE data.closedBy,
            !.closedAt = IF data.closedAt = KeepField THEN @ ELSE data.closedAt]

\* PATCH /api/tickets/:id
PatchTicket(u, id, body) ==
  /\ UNCHANGED <<now, notTicket>>
  /\ IF id \notin DOMAIN tickets
     THEN resp' = Err(404, "Ticket not found") /\ UNCHANGED ticketVars
     ELSE IF ownerId[tickets[id].serverId] # u
     THEN resp' = Err(403, "Not authorized") /\ UNCHANGED ticketVars
     ELSE /\ tickets' = [tickets EXCEPT
                           ![id] = ApplyTicketPatch(@, TicketUpdateData(@, body, u, now))]
          /\ closer' = IF IsClosing(tickets[id], body) THEN [closer EXCEPT ![id] = u] ELSE closer
          /\ resp' = Resp("PatchTicket", 200, u, NoId, id, body.status, FALSE)
  /\ Broadcasts

NextTickets ==
  \/ RequireAuthReject
  \/ \E u \in Users, s \in Servers : PostTicket(u, s)
  \/ \E u \in Users, id \in 1..MaxTickets, body \in TicketPatchBodies : PatchTicket(u, id, body)
  \/ Tick

SpecTickets == Init /\ [][NextTickets]_vars

\* ------------------------------------------------------------- shifts
MaxShifts == 2

Shift(u, s, t) ==
  [serverId |-> s, userId |-> u, status |-> "active", startTime |-> t, endTime |-> NoTime]

\* storage.getActiveShiftByUserId(userId, serverId): the ids it can return
ActiveShifts(u, s) ==
  {i \in DOMAIN shifts :
     shifts[i].userId = u /\ shifts[i].serverId = s /\ shifts[i].status = "active"}

\* the early return of POST /api/shifts/start before its createShift call, NoResp if none
StartShiftRefusal(u, s) ==
  IF ~IsOwnerOrMember(u, s)
  THEN Err(403, "Not authorized - you must be a member of this server")
  ELSE IF ActiveShifts(u, s) # {} THEN Err(400, "You already have an active shift")
  ELSE NoResp

\* the early return of POST /api/servers/:serverId/shifts/start before its createShift
\* call, NoResp if none
StartShiftServerRefusal(u, s) ==
  IF ownerId[s] # u THEN Err(403, "Not authorized")
  ELSE IF ActiveShifts(u, s) # {} THEN Err(400, "You already have an active shift")
  ELSE NoResp

\* storage.createShift({serverId, userId, startTime: new Date(), endTime: null, status: 'active'})
CreateShift(route, u, s) ==
  /\ Len(shifts) < MaxShifts
  /\ shifts' = Append(shifts, Shift(u, s, now))
  /\ resp' = Resp(route, 200, u, NoId, Len(shifts) + 1, "active", FALSE)

\* POST /api/shifts/start
StartShift(u, s) ==
  /\ UNCHANGED <<now, inflight, notShift>>
  /\ IF StartShiftRefusal(u, s) # NoResp
     THEN resp' = StartShiftRefusal(u, s) /\ UNCHANGED shifts
     ELSE CreateShift("StartShift", u, s)
  /\ Broadcasts

\* POST /api/servers/:serverId/shifts/start
StartShiftServer(u, s) ==
  /\ UNCHANGED <<now, inflight, notShift>>
  /\ IF StartShiftServerRefusal(u, s) # NoResp
     THEN resp' = StartShiftServerRefusal(u, s) /\ UNCHANGED shifts
     ELSE CreateShift("StartShiftServer", u, s)
  /\ Broadcasts

\* storage.updateShift(id, {endTime, status: 'completed'})
CompleteShift(sh, t) == [sh EXCEPT !.status = "completed", !.endTime = t]

\* POST /api/shifts/end
EndShift(u, s) ==
  /\ UNCHANGED <<now, inflight, notShift>>
  /\ IF ~IsOwnerOrMember(u, s)
     THEN resp' = Err(403, "Not authorized - you must be a member of this server") /\ UNCHANGED shifts
     ELSE IF ActiveShifts(u, s) = {}
     THEN resp' = Err(404, "No active shift found") /\ UNCHANGED shifts
     ELSE \E i \in ActiveShifts(u, s) :
            /\ shifts' = [shifts EXCEPT ![i] = CompleteShift(@, now)]
            /\ resp' = Resp("EndShift", 200, u, NoId, i, "completed", FALSE)
  /\ Broadcasts

ShiftIsActive_Always(sh) == TRUE

\* shift.status !== "active" answers 400
ShiftIsActive(sh) == sh.status = "active"

\* POST /api/servers/:serverId/shifts/:shiftId/end
EndShiftServer(u, s, id) ==
  /\ UNCHANGED <<now, inflight, notShift>>
  /\ IF ownerId[s] # u
     THEN resp' = Err(403, "Not authorized") /\ UNCHANGED shifts
     ELSE IF id \notin DOMAIN shifts \/ shifts[id].serverId # s
     THEN resp' = Err(404, "Shift not found") /\ UNCHANGED shifts
     ELSE IF ~ShiftIsActive(shifts[id])
     THEN resp' = Err(400, "Shift is not active") /\ UNCHANGED shifts
     ELSE /\ shifts' = [shifts EXCEPT ![id] = CompleteShift(@, now)]
          /\ resp' = Resp("EndShiftServer", 200, u, NoId, id, "completed", FALSE)
  /\ Broadcasts

NextShifts ==
  \/ RequireAuthReject
  \/ \E u \in Users, s \in Servers : StartShift(u, s)
  \/ \E u \in Users, s \in Servers : StartShiftServer(u, s)
  \/ \E u \in Users, s \in Servers : EndShift(u, s)
  \/ \E u \in Users, s \in Servers, id \in 1..MaxShifts : EndShiftServer(u, s, id)
  \/ Tick

\* requests handled one after the other
SpecShifts == Init /\ [][NextShifts]_vars

\* POST /api/shifts/start up to and including await storage.getActiveShiftByUserId
StartShiftCheck(c, u, s) ==
  /\ inflight[c].pc = "idle"
  /\ UNCHANGED <<now, shifts, notShift>>
  /\ IF StartShiftRefusal(u, s) # NoResp
     THEN resp' = StartShiftRefusal(u, s) /\ UNCHANGED inflight
     ELSE /\ inflight' = [inflight EXCEPT ![c] = [pc |-> "StartShift", user |-> u, server |-> s]]
          /\ resp' = NoResp
  /\ Broadcasts

\* POST /api/servers/:serverId/shifts/start up to and including
\* await storage.getActiveShiftByUserId
StartShiftServerCheck(c, u, s) ==
  /\ inflight[c].pc = "idle"
  /\ UNCHANGED <<now, shifts, notShift>>
  /\ IF StartShiftServerRefusal(u, s) # NoResp
     THEN resp' = StartShiftServerRefusal(u, s) /\ UNCHANGED inflight
     ELSE /\ inflight' = [inflight EXCEPT ![c] = [pc |-> "StartShiftServer", user |-> u, server |-> s]]
          /\ resp' = NoResp
  /\ Broadcasts

\* the rest of either start handler: await storage.createShift, broadcast, res.json
StartShiftCreate(c) ==
  /\ inflight[c].pc # "idle"
  /\ UNCHANGED <<now, notShift>>
  /\ CreateShift(inflight[c].pc, inflight[c].user, inflight[c].server)
  /\ inflight' = [inflight EXCEPT ![c] = IdleConn]
  /\ Broadcasts

NextShiftRace ==
  \/ \E c \in Conns, u \in Users, s \in Servers : StartShiftCheck(c, u, s)
  \/ \E c \in Conns, u \in Users, s \in Servers : StartShiftServerCheck(c, u, s)
  \/ \E c \in Conns : StartShiftCreate(c)
  \/ \E u \in Users, s \in Servers : EndShift(u, s)

\* start requests interleaved at their awaits
SpecShiftRace == Init /\ [][NextShiftRace]_vars

\* -------------------------------------------------------- marketplace
MaxTx == 1
MaxLogs == 2
Amounts == {10, 20}
Currencies == {"USD"}

\* req.body of POST /api/marketplace/transactions
TxBodies == [buyerId : Users, sellerId : Users, amount : Amounts, currency : Currencies]

\* storage.createEscrow({transactionId, amount, currency})
Escrow(id, tx) ==
  [transactionId |-> id, amount |-> tx.amount, currency |-> tx.currency, status |-> "held"]

LogEntry(id, action, u) == [transactionId |-> id, action |-> action, performedBy |-> u]

\* the storage call of a handler that rejects, "none" when all of them resolve
TxCreateFailures == {"none", "createTransaction", "createEscrow", "createTransactionLog"}

EscrowRowsOnCreate_WhenLogged(fail, id, tx) ==
  IF fail = "none" THEN Append(escrows, Escrow(id, tx)) ELSE escrows

\* the escrow table after the handler: createEscrow runs once createTransaction resolved
EscrowRowsOnCreate(fail, id, tx) ==
  IF fail # "createEscrow" THEN Append(escrows, Escrow(id, tx)) ELSE escrows

\* POST /api/marketplace/transactions
PostTransaction(u, body, fail) ==
  /\ UNCHANGED <<now, notMarket>>
  /\ IF fail = "createTransaction"
     THEN resp' = Err(500, "Failed to create transaction") /\ UNCHANGED marketVars
     ELSE LET id == Len(transactions) + 1 IN
          /\ Len(transactions) < MaxTx
          /\ transactions' = Append(transactions, body)
          /\ escrows' = EscrowRowsOnCreate(fail, id, body)
          /\ IF fail = "none"
             THEN /\ Len(txLogs) < MaxLogs
                  /\ txLogs' = Append(txLogs, LogEntry(id, "created", u))
                  /\ resp' = Resp("PostTransaction", 200, u, NoId, id, "", FALSE)
             ELSE /\ UNCHANGED txLogs
                  /\ resp' = Err(500, "Failed to create transaction")

IsParty_Anyone(u, tx) == TRUE

\* transaction.sellerId !== req.user.id && transaction.buyerId !== req.user.id
IsParty(u, tx) == tx.sellerId = u \/ tx.buyerId = u

\* req.body of PATCH /api/marketplace/transactions/:id, restricted to the amount
TxPatchBodies == [amount : {KeepField} \cup Amounts]

\* storage.updateTransaction(id, req.body)
ApplyTxPatch(tx, body) ==
  [tx EXCEPT !.amount = IF body.amount = KeepField THEN @ ELSE body.amount]

\* PATCH /api/marketplace/transactions/:id
PatchTransaction(u, id, body) ==
  /\ UNCHANGED <<now, escrows, notMarket>>
  /\ IF id \notin DOMAIN transactions
     THEN resp' = Err(404, "Transaction not found") /\ UNCHANGED <<transactions, txLogs>>
     ELSE IF ~IsParty(u, transactions[id])
     THEN resp' = Err(403, "Not authorized") /\ UNCHANGED <<transactions, txLogs>>
     ELSE /\ Len(txLogs) < MaxLogs
          /\ transactions' = [transactions EXCEPT ![id] = ApplyTxPatch(@, body)]
          /\ txLogs' = Append(txLogs, LogEntry(id, "updated", u))
          /\ resp' = Resp("PatchTransaction", 200, u, NoId, id, "", FALSE)

\* req.body of PATCH /api/marketplace/escrow/:id, restricted to status and amount
EscrowPatchBodies == [status : {"keep", "disputed", "released"}, amount : {KeepField, 20}]

\* storage.updateEscrow(id, req.body)
ApplyEscrowPatch(e, body) ==
  [e EXCEPT !.status = IF body.status = "keep" THEN @ ELSE body.status,
            !.amount = IF body.amount = KeepField THEN @ ELSE body.amount]

\* PATCH /api/marketplace/escrow/:id
PatchEscrow(u, id, body) ==
  /\ UNCHANGED <<now, transactions, notMarket>>
  /\ IF id \notin DOMAIN escrows
     THEN resp' = Err(404, "Escrow not found") /\ UNCHANGED <<escrows, txLogs>>
     ELSE IF ~IsParty(u, transactions[escrows[id].transactionId])
     THEN resp' = Err(403, "Not authorized") /\ UNCHANGED <<escrows, txLogs>>
     ELSE /\ Len(txLogs) < MaxLogs
          /\ escrows' = [escrows EXCEPT ![id] = ApplyEscrowPatch(@, body)]
          /\ txLogs' = Append(txLogs, LogEntry(escrows[id].transactionId, "escrow_updated", u))
          /\ resp' = Resp("PatchEscrow", 200, u, NoId, id, body.status, FALSE)

NextMarket ==
  \/ RequireAuthReject
  \* the two users are interchangeable in these routes: the buyer is named u1
  \/ \E u \in Users, body \in {b \in TxBodies : b.buyerId = "u1"}, f \in TxCreateFailures :
        PostTransaction(u, body, f)
  \/ \E u \in Users, id \in 1..MaxTx, body \in TxPatchBodies : PatchTransaction(u, id, body)
  \/ \E u \in Users, id \in 1..MaxTx, body \in EscrowPatchBodies : PatchEscrow(u, id, body)

SpecMarket == Init /\ [][NextMarket]_vars

\* ----------------------------------------------------- sessions and OAuth
MaxTokens == 2
MaxNonces == 2
MaxJumps == 2
\* The session clock counts seconds (Date.now() / 1000), which keeps the sums of
\* several lifetimes within the integers of the checker.
\* 7 * 24 * 60 * 60 * 1000 ms of createSession
SessionTtl == 7 * 24 * 60 * 60
\* 10 * 60 * 1000 ms of GET /api/auth/discord
StateTtl == 10 * 60
\* hours * 60 * 60 * 1000 ms of POST /api/servers/:serverId/invites
Hour == 60 * 60

\* Map.delete(key)
Remove(map, key) == [k \in DOMAIN map \ {key} |-> map[k]]

\* a 32-byte value that generateSessionToken never returns: a guessed cookie
ForgedToken == -1
\* the session cookie of a request: none, a guessed value, or a token that
\* createSession has returned
Cookies == {NoToken, ForgedToken} \cup (1..Len(issued))

\* randomBytes(32).toString("hex"): a token no earlier call returned
FreshToken == Len(issued) + 1

SessionExpired_Never(session, t) == FALSE

\* session.expiresAt < Date.now()
SessionExpired(session, t) == session.expiresAt < t

\* !session || session.expiresAt < Date.now()
SessionMissingOrExpired(token) ==
  token \notin DOMAIN sessions \/ SessionExpired(sessions[token], clock)

\* getUserFromSession(token): the user it resolves to, NoUser for null
GetUserFromSession(token) ==
  IF token = NoToken \/ SessionMissingOrExpired(token) THEN NoUser
  ELSE IF userRows[sessions[token].userId].exists THEN sessions[token].userId
  ELSE NoUser

\* the sessions map after getUserFromSession(token)
SessionsAfterLookup(token) ==
  IF token # NoToken /\ SessionMissingOrExpired(token)
  THEN Remove(sessions, token)
  ELSE sessions

\* createSession(userId): the entry stored under the fresh token
SessionEntry(u) == [userId |-> u, expiresAt |-> clock + SessionTtl]

\* GET /api/auth/me: the answer of a request that carries the cookie token,
\* decided as requireAuth decides it
AuthMeRoute(token) ==
  /\ sessions' = SessionsAfterLookup(token)
  /\ resp' = LET u == GetUserFromSession(token) IN
             IF u = NoUser
             THEN Resp("AuthMe", 401, NoUser, NoId, token, "Not authenticated", FALSE)
             ELSE Resp("AuthMe", 200, u, NoId, token, "", FALSE)
  /\ UNCHANGED <<clock, jumps, issued, loggedOut, oauthVars, accountVars, notAuthPage>>

\* the request sent by any client but the create-listing page
AuthMe(token) == AuthMeRoute(token) /\ UNCHANGED pageVars

\* GET /api/auth/logout
Logout(token) ==
  /\ sessions' = IF token # NoToken THEN Remove(sessions, token) ELSE sessions
  /\ loggedOut' = IF token # NoToken THEN loggedOut \cup {token} ELSE loggedOut
  /\ resp' = Resp("Logout", 302, NoUser, NoId, token, "", FALSE)
  /\ UNCHANGED <<clock, jumps, issued, oauthVars, accountVars, notAuth>>

\* time passing between requests
AdvanceClock(d) ==
  /\ jumps < MaxJumps
  /\ jumps' = jumps + 1
  /\ clock' = clock + d
  /\ resp' = NoResp
  /\ UNCHANGED <<sessionVars, oauthVars, accountVars, notAuth>>

\* GET /api/auth/discord: stores a fresh nonce with its lifetime and redirects to
\* Discord with the nonce in the state parameter
AuthStartWithin(max) ==
  /\ nonces < max
  /\ nonces' = nonces + 1
  /\ oauthStates' = (nonces + 1 :> [expiresAt |-> clock + StateTtl]) @@ oauthStates
  /\ resp' = Resp("AuthStart", 302, NoUser, NoId, 0, "", FALSE)
  /\ UNCHANGED <<clock, jumps, sessionVars, consumed, accountVars, notAuth>>

AuthStart == AuthStartWithin(MaxNonces)

MaxInvites == 1
\* the nonce in the state of a callback: a value GET /api/auth/discord never
\* generated (0), or one it has generated
StateNonces == 0..nonces
\* the invite in the state of a callback: none (0), the code of a row, or a code
\* with no invite_codes row (a missing invite)
StateInvites == 0..(Len(invites) + 1)
GuildNames == {"n1", "n2"}
\* what Discord reports of the account's guilds: the managed ones and their name
GuildReports == {[managed |-> {}, name |-> "n1"]} \cup [managed : {Guilds}, name : GuildNames]
\* the query of a callback that fails before the state is looked up
QueryErrors == {"oauth_failed", "missing_code", "missing_state", "invalid_state_format"}
\* the token exchange with Discord: ok, a non-OK response, no access_token, a throw
ExchangeOutcomes == {"ok", "token_exchange_failed", "no_access_token", "threw"}

\* res.redirect("/?error=...") of a callback whose state carried nonce n
CallbackError(n, error) == Resp("Callback", 302, NoUser, NoId, n, error, FALSE)

StatesAfterAccept_Kept(n) == oauthStates

\* oauthStates.delete(stateData.nonce) once the nonce is verified
StatesAfterAccept(n) == Remove(oauthStates, n)

StateExpired_Never(stored, t) == FALSE

\* storedState.expiresAt < Date.now()
StateExpired(stored, t) == stored.expiresAt < t

\* invite.expiresAt && new Date(invite.expiresAt) < new Date()
InviteIsExpired(invite) == invite.expiresAt # NoExpiry /\ invite.expiresAt < clock

\* invite.maxUses && invite.currentUses >= invite.maxUses
MaxUsesReached(invite) == invite.maxUses # 0 /\ invite.currentUses >= invite.maxUses

InviteProcessed_Never(code) == FALSE

\* inviteProcessed: the state names an invite that exists, is not expired and has
\* uses left
InviteProcessed(code) ==
  /\ code \in DOMAIN invites
  /\ ~InviteIsExpired(invites[code])
  /\ ~MaxUsesReached(invites[code])

\* storage.createUser({... tosAcceptedAt: null}) or storage.updateUser(user.id, {...})
UserRowsAfterLogin(d) ==
  IF userRows[d].exists THEN userRows
  ELSE [userRows EXCEPT ![d] = [exists |-> TRUE, tosAccepted |-> FALSE]]

\* storage.getServerMemberByUserAndServer(userId, serverId) finds a row in table
MemberIn(table, u, g) == \E k \in DOMAIN table : k[1] = u /\ k[2] = g

IsMember(u, g) == MemberIn(members, u, g)

\* storage.createServerMember({serverId, userId, ...}): one more row
AddMember(table, u, g, via) ==
  IF <<u, g, via>> \in DOMAIN table
  THEN [table EXCEPT ![<<u, g, via>>] = @ + 1]
  ELSE (<<u, g, via>> :> 1) @@ table

\* the invite redemption block: membership and usage count
MembersAfterInvite(d, code) ==
  IF InviteProcessed(code) /\ ~IsMember(d, invites[code].serverId)
  THEN AddMember(members, d, invites[code].serverId, code)
  ELSE members

InvitesAfterInvite(d, code) ==
  IF InviteProcessed(code) /\ ~IsMember(d, invites[code].serverId)
  THEN [invites EXCEPT ![code].currentUses = @ + 1]
  ELSE invites

ServersAfterSync_TakesOver(d, managed, name) ==
  [g \in Guilds |->
     IF g \in managed THEN [exists |-> TRUE, ownerId |-> d, name |-> name] ELSE guildServers[g]]

\* the loop over managedGuilds: create the missing rows with the user as owner,
\* refresh name and icon of the rows another user owns
ServersAfterSync(d, managed, name) ==
  [g \in Guilds |->
     IF g \notin managed THEN guildServers[g]
     ELSE IF ~guildServers[g].exists
     THEN [exists |-> TRUE, ownerId |-> d, name |-> name]
     ELSE IF guildServers[g].ownerId # d
     THEN [guildServers[g] EXCEPT !.name = name]
     ELSE guildServers[g]]

\* permissions of a guild as Discord reports them: none, ADMINISTRATOR (0x8) only,
\* MANAGE_GUILD (0x20) only, both
Permissions == {0, 8, 32, 40}

\* (g.permissions & 0x20) === 0x20
HasManageGuild(p) == (p \div 32) % 2 = 1

\* guilds.filter(...): the guilds of the report whose permissions pass
ManagedGuilds(perms) == {g \in DOMAIN perms : HasManageGuild(perms[g])}

\* a report in which the account has MANAGE_GUILD in exactly the guilds of set
Managing(set) == [g \in set |-> 32]

\* the guild report of a login as a word: the name of the managed guilds, empty
\* when the account manages none
ReportTag(managed, name) == IF managed = {} THEN "" ELSE name

\* GET /api/auth/discord/callback for a state carrying nonce n and invite code,
\* the Discord account d that granted the code, its guilds with the permissions
\* it has in each and their name;
\* the answer of a login is recorded with the invite code and the guild report of
\* the request, any other answer with the nonce
Callback(q, n, code, d, perms, name, exchange) ==
  /\ UNCHANGED <<clock, jumps, loggedOut, nonces, notAuth>>
  /\ IF q \in QueryErrors
     THEN /\ resp' = CallbackError(0, q)
          /\ UNCHANGED <<sessions, issued, oauthStates, consumed, accountVars>>
     ELSE IF n \notin DOMAIN oauthStates
     THEN /\ resp' = CallbackError(n, "invalid_state")
          /\ UNCHANGED <<sessions, issued, oauthStates, consumed, accountVars>>
     ELSE IF StateExpired(oauthStates[n], clock)
     THEN /\ oauthStates' = Remove(oauthStates, n)
          /\ resp' = CallbackError(n, "state_expired")
          /\ UNCHANGED <<sessions, issued, consumed, accountVars>>
     ELSE /\ oauthStates' = StatesAfterAccept(n)
          /\ consumed' = consumed \cup {n}
          /\ IF exchange # "ok"
             THEN /\ resp' = IF exchange = "threw"
                             THEN Resp("Callback", 500, NoUser, NoId, n, "Authentication failed", FALSE)
                             ELSE CallbackError(n, exchange)
                  /\ UNCHANGED <<sessions, issued, accountVars>>
             ELSE /\ Len(issued) < MaxTokens
                  /\ userRows' = UserRowsAfterLogin(d)
                  /\ members' = MembersAfterInvite(d, code)
                  /\ invites' = InvitesAfterInvite(d, code)
                  /\ guildServers' = IF InviteProcessed(code)
                                     THEN guildServers
                                     ELSE ServersAfterSync(d, ManagedGuilds(perms), name)
                  /\ issued' = Append(issued, SessionEntry(d))
                  /\ sessions' = (FreshToken :> SessionEntry(d)) @@ sessions
                  /\ resp' = Resp("Callback", 302, d, perms, code,
                                   ReportTag(ManagedGuilds(perms), name), TRUE)

\* req.body of POST /api/servers/:serverId/invites: role given or not, maxUses
\* (0 for none), expiresIn in hours (0 for none)
InviteBodies ==
  {[role |-> "", maxUses |-> 0, expiresIn |-> 0],
   [role |-> "moderator", maxUses |-> 0, expiresIn |-> 0],
   [role |-> "moderator", maxUses |-> 1, expiresIn |-> 0],
   [role |-> "moderator", maxUses |-> 0, expiresIn |-> 1]}

\* storage.createInviteCode({...})
Invite(g, u, body) ==
  [serverId |-> g, createdBy |-> u, maxUses |-> body.maxUses, currentUses |-> 0,
   expiresAt |-> IF body.expiresIn # 0 THEN clock + body.expiresIn * Hour ELSE NoExpiry]

\* POST /api/servers/:serverId/invites
CreateInvite(token, g, body) ==
  /\ sessions' = SessionsAfterLookup(token)
  /\ UNCHANGED <<clock, jumps, issued, loggedOut, oauthVars, userRows, members,
                 guildServers, notAuth>>
  /\ LET u == GetUserFromSession(token) IN
     IF u = NoUser
     THEN resp' = Unauthorized /\ UNCHANGED invites
     ELSE IF body.role = ""
     THEN resp' = Err(400, "Role is required") /\ UNCHANGED invites
     ELSE IF ~guildServers[g].exists \/ guildServers[g].ownerId # u
     THEN resp' = Err(403, "Not authorized") /\ UNCHANGED invites
     ELSE /\ Len(invites) < MaxInvites
          /\ invites' = Append(invites, Invite(g, u, body))
          /\ resp' = Resp("CreateInvite", 200, u, NoId, Len(invites) + 1, "", FALSE)

\* the session layer: logins without invite or guilds, identified requests,
\* logout, and clock steps of one session lifetime (a session is at its
\* expiresAt after one step and past it after two)
NextSession ==
  \/ AuthStart
  \/ \E n \in StateNonces, d \in Users, x \in ExchangeOutcomes :
       Callback("ok", n, 0, d, Managing({}), "n1", x)
  \/ \E t \in Cookies : AuthMe(t)
  \/ \E t \in Cookies : Logout(t)
  \/ AdvanceClock(SessionTtl)

SpecSession == Init /\ [][NextSession]_vars

\* the OAuth flow: every way a callback can fail or succeed, and clock steps
\* of one nonce lifetime
NextOAuth ==
  \/ AuthStart
  \/ \E q \in QueryErrors : Callback(q, 0, 0, "u1", Managing({}), "n1", "ok")
  \/ \E n \in StateNonces, d \in Users, m \in SUBSET Guilds, x \in ExchangeOutcomes :
       Callback("ok", n, 0, d, Managing(m), "n1", x)
  \/ AdvanceClock(StateTtl)

SpecOAuth == Init /\ [][NextOAuth]_vars

\* invites: logins with and without an invite in the state, creation of invites
\* by logged-in users, and clock steps of one hour, the invite lifetime
NextInvite ==
  \/ AuthStart
  \/ \E n \in DOMAIN oauthStates, c \in StateInvites, d \in Users, g \in GuildReports :
       Callback("ok", n, c, d, Managing(g.managed), g.name, "ok")
  \/ \E t \in 1..Len(issued), g \in Guilds, body \in InviteBodies : CreateInvite(t, g, body)
  \/ AdvanceClock(Hour)

SpecInvite == Init /\ [][NextInvite]_vars

\* logins of accounts with every combination of permissions in the guild
NextSync ==
  \/ AuthStart
  \/ \E n \in DOMAIN oauthStates, d \in Users, perms \in [Guilds -> Permissions],
        name \in GuildNames :
       Callback("ok", n, 0, d, perms, name, "ok")
  \/ \E t \in Cookies : Logout(t)

SpecSync == Init /\ [][NextSync]_vars

\* ------------------------------------- membership requests at their awaits
\* the owner's login and two logins that carry an invite
MaxRedeemNonces == 3

notRedeem == <<modVars, now, whVars, ticketVars, shifts, marketVars, wsVars, listings,
               pageVars, lateVars, clock, jumps, loggedOut, nonces, guildServers>>

\* GET /api/auth/discord/callback of a login whose state carries nonce n and an
\* invite code, from the state check through await storage.getInviteCodeByCode
\* for an invite found valid; any other callback runs as Callback
CallbackInvite(c, n, code, d) ==
  /\ inflight[c].pc = "idle"
  /\ n \in DOMAIN oauthStates
  /\ ~StateExpired(oauthStates[n], clock)
  /\ InviteProcessed(code)
  /\ oauthStates' = StatesAfterAccept(n)
  /\ consumed' = consumed \cup {n}
  /\ userRows' = UserRowsAfterLogin(d)
  /\ inflight' = [inflight EXCEPT ![c] =
                    [pc |-> "member", user |-> d, server |-> invites[code].serverId,
                     code |-> code, currentUses |-> invites[code].currentUses]]
  /\ resp' = NoResp
  /\ UNCHANGED <<sessions, issued, members, invites, notRedeem>>

\* await storage.getServerMemberByUserAndServer(user.id, invite.serverId)
CallbackMember(c) ==
  /\ inflight[c].pc = "member"
  /\ inflight' = [inflight EXCEPT ![c].pc =
                    IF IsMember(inflight[c].user, inflight[c].server) THEN "session" ELSE "create"]
  /\ resp' = NoResp
  /\ UNCHANGED <<sessions, issued, oauthStates, consumed, accountVars, notRedeem>>

\* what an awaited storage call can end in
StorageOutcomes == {"ok", "throws"}

\* the answer of a handler whose storage call threw: the outer catch
Threw(pc) ==
  IF pc = "PostMember" THEN Err(500, "Failed to add server member")
  ELSE Resp("Callback", 500, NoUser, NoId, 0, "Authentication failed", FALSE)

\* await storage.createServerMember({...}) of either handler; the insert of a
\* second row for the pair throws when the table refuses it
CreateServerMember(c, outcome) ==
  /\ inflight[c].pc \in {"create", "PostMember"}
  /\ outcome = "throws" => IsMember(inflight[c].user, inflight[c].server)
  /\ UNCHANGED <<sessions, issued, oauthStates, consumed, userRows, guildServers, invites,
                 notRedeem>>
  /\ IF outcome = "throws"
     THEN /\ resp' = Threw(inflight[c].pc)
          /\ inflight' = [inflight EXCEPT ![c] = IdleConn]
          /\ UNCHANGED members
     ELSE /\ members' = AddMember(members, inflight[c].user, inflight[c].server, inflight[c].code)
          /\ IF inflight[c].pc = "PostMember"
             THEN /\ resp' = Resp("PostMember", 200, inflight[c].user, NoId, 0, "", FALSE)
                  /\ inflight' = [inflight EXCEPT ![c] = IdleConn]
             ELSE /\ resp' = NoResp
                  /\ inflight' = [inflight EXCEPT ![c].pc = "increment"]

\* await storage.updateInviteCode(invite.id, {currentUses: invite.currentUses + 1})
CallbackIncrement(c) ==
  /\ inflight[c].pc = "increment"
  /\ invites' = [invites EXCEPT ![inflight[c].code].currentUses = inflight[c].currentUses + 1]
  /\ inflight' = [inflight EXCEPT ![c].pc = "session"]
  /\ resp' = NoResp
  /\ UNCHANGED <<sessions, issued, oauthStates, consumed, userRows, members, guildServers,
                 notRedeem>>

\* createSession(user.id), the cookie and the redirect
CallbackSession(c) ==
  /\ inflight[c].pc = "session"
  /\ Len(issued) < MaxTokens
  /\ issued' = Append(issued, SessionEntry(inflight[c].user))
  /\ sessions' = (FreshToken :> SessionEntry(inflight[c].user)) @@ sessions
  /\ inflight' = [inflight EXCEPT ![c] = IdleConn]
  /\ resp' = Resp("Callback", 302, inflight[c].user, NoId, inflight[c].code, "", TRUE)
  /\ UNCHANGED <<oauthStates, consumed, accountVars, notRedeem>>

\* POST /api/servers/:serverId/members with body {userId: d, role}, through
\* await storage.getServerMemberByUserAndServer
PostMemberCheck(c, token, g, d, role) ==
  /\ inflight[c].pc = "idle"
  /\ sessions' = SessionsAfterLookup(token)
  /\ UNCHANGED <<issued, oauthStates, consumed, accountVars, notRedeem>>
  /\ LET u == GetUserFromSession(token) IN
     IF u = NoUser
     THEN resp' = Unauthorized /\ UNCHANGED inflight
     ELSE IF role = ""
     THEN resp' = Err(400, "Missing required fields") /\ UNCHANGED inflight
     ELSE IF ~guildServers[g].exists \/ guildServers[g].ownerId # u
     THEN resp' = Err(403, "Not authorized") /\ UNCHANGED inflight
     ELSE IF ~userRows[d].exists
     THEN resp' = Err(400, "This Discord user hasn't logged in") /\ UNCHANGED inflight
     ELSE IF IsMember(d, g)
     THEN resp' = Err(400, "User is already a member") /\ UNCHANGED inflight
     ELSE /\ inflight' = [inflight EXCEPT ![c] =
                            [pc |-> "PostMember", user |-> d, server |-> g, code |-> 0]]
          /\ resp' = NoResp

NextRedeem ==
  \/ AuthStartWithin(MaxRedeemNonces)
  \/ \E n \in DOMAIN oauthStates, d \in Users :
       Callback("ok", n, 0, d, Managing(Guilds), "n1", "ok")
  \/ \E t \in 1..Len(issued), g \in Guilds :
       CreateInvite(t, g, [role |-> "moderator", maxUses |-> 1, expiresIn |-> 0])
  \/ \E c \in Conns, n \in DOMAIN oauthStates, code \in DOMAIN invites, d \in Users :
       CallbackInvite(c, n, code, d)
  \/ \E c \in Conns : CallbackMember(c)
  \/ \E c \in Conns, o \in StorageOutcomes : CreateServerMember(c, o)
  \/ \E c \in Conns : CallbackIncrement(c)
  \/ \E c \in Conns : CallbackSession(c)
  \/ \E c \in Conns, t \in 1..Len(issued), g \in Guilds, d \in Users, role \in {"", "moderator"} :
       PostMemberCheck(c, t, g, d, role)

\* logins with an invite and member additions interleaved at their awaits
SpecRedeem == Init /\ [][NextRedeem]_vars

\* ------------------------------------------------- terms and listings
MaxListings == 1

\* storage.acceptTos(user.id)
AcceptedTos(row) == [row EXCEPT !.tosAccepted = TRUE]

\* POST /api/user/accept-tos
AcceptTosRoute(token) ==
  /\ sessions' = SessionsAfterLookup(token)
  /\ UNCHANGED <<clock, jumps, issued, loggedOut, oauthVars, members, guildServers,
                 invites, notAuthPage>>
  /\ LET u == GetUserFromSession(token) IN
     IF u = NoUser
     THEN resp' = Unauthorized /\ UNCHANGED userRows
     ELSE /\ userRows' = [userRows EXCEPT ![u] = AcceptedTos(@)]
          /\ resp' = Resp("AcceptTos", 200, u, NoId, 0, "", FALSE)

\* the request sent by any client but the modal
AcceptTos(token) == AcceptTosRoute(token) /\ UNCHANGED pageVars

\* storage.createListing({...req.body, sellerId: req.user.id})
Listing(u) == [sellerId |-> u]

\* POST /api/marketplace/listings
PostListing(token) ==
  /\ sessions' = SessionsAfterLookup(token)
  /\ UNCHANGED <<modVars, now, whVars, ticketVars, shiftVars, marketVars, wsVars, pageVars>>
  /\ UNCHANGED <<clock, jumps, issued, loggedOut, oauthVars, accountVars, lateVars>>
  /\ LET u == GetUserFromSession(token) IN
     IF u = NoUser
     THEN resp' = Unauthorized /\ UNCHANGED listings
     ELSE /\ Len(listings) < MaxListings
          /\ listings' = Append(listings, Listing(u))
          /\ resp' = Resp("PostListing", 200, u, NoId, Len(listings) + 1, "", FALSE)

\* logged-in users accepting the terms and creating listings
NextListing ==
  \/ AuthStart
  \/ \E n \in StateNonces, d \in Users : Callback("ok", n, 0, d, Managing({}), "n1", "ok")
  \/ \E t \in Cookies : AcceptTos(t)
  \/ \E t \in Cookies : PostListing(t)
  \/ \E t \in Cookies : Logout(t)

SpecListing == Init /\ [][NextListing]_vars

\* ------------------------------------------- create-listing page (browser)
\* what useQuery({ queryKey: ["/api/auth/me"] }) holds after an answer
UserOfAnswer(r, rows) ==
  IF r.code # 200 THEN "none"
  ELSE IF rows[r.user].tosAccepted THEN "accepted" ELSE "unaccepted"

\* useEffect: if (user && !user.tosAcceptedAt && !tosJustAccepted) setShowTosModal(true)
ModalAfterEffect(user, justAccepted, shown) ==
  IF user = "unaccepted" /\ ~justAccepted THEN TRUE ELSE shown

\* the ["/api/auth/me"] query delivers its first data
UserLoaded(token) ==
  /\ meUser = "loading"
  /\ AuthMeRoute(token)
  /\ meUser' = UserOfAnswer(resp', userRows)
  /\ showTosModal' = IF location = CreatePath
                      THEN ModalAfterEffect(meUser', tosJustAccepted, showTosModal)
                      ELSE showTosModal
  /\ UNCHANGED <<location, meStale, tosJustAccepted, agreed, acceptTosMutation>>

\* queryClient.invalidateQueries refetches the user after the terms were accepted
UserRefetched(token) ==
  /\ meStale
  /\ AuthMeRoute(token)
  /\ meStale' = FALSE
  /\ meUser' = UserOfAnswer(resp', userRows)
  /\ showTosModal' = IF location = CreatePath
                      THEN ModalAfterEffect(meUser', tosJustAccepted, showTosModal)
                      ELSE showTosModal
  /\ UNCHANGED <<location, tosJustAccepted, agreed, acceptTosMutation>>

\* onCheckedChange of the checkbox
SetAgreed(checked) ==
  /\ location = CreatePath /\ showTosModal
  /\ agreed' = checked
  /\ UNCHANGED <<location, meUser, meStale, showTosModal, tosJustAccepted,
                 acceptTosMutation, notPage>>

\* handleAccept, the onClick of "Accept & Continue"
HandleAccept ==
  /\ location = CreatePath /\ showTosModal
  /\ acceptTosMutation # "pending"
  /\ acceptTosMutation' = IF agreed THEN "pending" ELSE acceptTosMutation
  /\ UNCHANGED <<location, meUser, meStale, showTosModal, tosJustAccepted, agreed, notPage>>

\* where onOpenChange(open) leaves the router: the callback reads the
\* tosJustAccepted of the render it was created in
LocationAfterOpenChange(open, justAccepted) ==
  IF ~open /\ ~justAccepted THEN MarketPath ELSE location

\* the Cancel button, disabled while the mutation is pending
Cancel ==
  /\ location = CreatePath /\ showTosModal
  /\ acceptTosMutation # "pending"
  /\ location' = LocationAfterOpenChange(FALSE, tosJustAccepted)
  /\ showTosModal' = FALSE
  /\ UNCHANGED <<meUser, meStale, tosJustAccepted, agreed, acceptTosMutation, notPage>>

\* the dialog closes itself (Escape, outside click, close icon)
DialogDismiss ==
  /\ location = CreatePath /\ showTosModal
  /\ location' = LocationAfterOpenChange(FALSE, tosJustAccepted)
  /\ showTosModal' = FALSE
  /\ UNCHANGED <<meUser, meStale, tosJustAccepted, agreed, acceptTosMutation, notPage>>

\* the server answers 200: onSuccess runs invalidateQueries, onAccepted(),
\* onOpenChange(false); both state updates are applied by the render that
\* follows the callback
AcceptSuccess(token) ==
  /\ acceptTosMutation = "pending"
  /\ AcceptTosRoute(token)
  /\ resp'.code = 200
  /\ acceptTosMutation' = "success"
  /\ meStale' = TRUE
  /\ tosJustAccepted' = TRUE
  /\ location' = LocationAfterOpenChange(FALSE, tosJustAccepted)
  /\ showTosModal' = FALSE
  /\ UNCHANGED <<meUser, agreed>>

\* the server answers 401: onError shows a toast only
AcceptError(token) ==
  /\ acceptTosMutation = "pending"
  /\ AcceptTosRoute(token)
  /\ resp'.code # 200
  /\ acceptTosMutation' = "error"
  /\ UNCHANGED <<location, meUser, meStale, showTosModal, tosJustAccepted, agreed>>

\* apiRequest throws before any answer (rejected fetch): onError
AcceptThrows ==
  /\ acceptTosMutation = "pending"
  /\ acceptTosMutation' = "error"
  /\ UNCHANGED <<location, meUser, meStale, showTosModal, tosJustAccepted, agreed, notPage>>

\* the user opens /marketplace/create again: the page mounts with fresh state
\* and its effect runs on the cached user; a reload empties the query cache
OpenCreatePage(reload) ==
  /\ location = MarketPath
  /\ acceptTosMutation # "pending"
  /\ location' = CreatePath
  /\ meUser' = IF reload THEN "loading" ELSE meUser
  /\ meStale' = IF reload THEN FALSE ELSE meStale
  /\ showTosModal' = ModalAfterEffect(meUser', FALSE, FALSE)
  /\ tosJustAccepted' = FALSE
  /\ agreed' = FALSE
  /\ acceptTosMutation' = "idle"
  /\ UNCHANGED notPage

\* one browser on the create-listing page and the server behind it
NextPage ==
  \/ AuthStart
  \/ \E n \in StateNonces : Callback("ok", n, 0, "u1", Managing({}), "n1", "ok")
  \/ \E t \in Cookies : UserLoaded(t)
  \/ \E t \in Cookies : UserRefetched(t)
  \/ \E checked \in BOOLEAN : SetAgreed(checked)
  \/ HandleAccept
  \/ Cancel
  \/ DialogDismiss
  \/ \E t \in Cookies : AcceptSuccess(t)
  \/ \E t \in Cookies : AcceptError(t)
  \/ AcceptThrows
  \/ \E reload \in BOOLEAN : OpenCreatePage(reload)

SpecPage == Init /\ [][NextPage]_vars

\* --------------------------------------------------------- seedAdminUser
MaxStartups == 3
\* process.env.ADMIN_USERNAME || 'admin', process.env.ADMIN_PASSWORD || 'admin123'
AdminNames == {"admin", "root"}
AdminPasswords == {"admin123", "changed"}

\* bcrypt.hash(adminPassword, 10): a hash of the password under a fresh salt
BcryptHash(password, salt) == <<password, salt>>

\* storage.getAdminByUsername(adminUsername): index of the record, 0 if none
GetAdminByUsername(name) ==
  IF \E i \in DOMAIN admins : admins[i].username = name
  THEN CHOOSE i \in DOMAIN admins : admins[i].username = name
  ELSE 0

SeedNeeded_Always(name) == TRUE

\* if (!existingAdmin)
SeedNeeded(name) == GetAdminByUsername(name) = 0

\* a server process starts with its environment; the timer of the startup
\* block will call seedAdminUser; the process before it is gone, and with it
\* the tokens its adminSessions Map held
Startup(name, password) ==
  /\ startups < MaxStartups
  /\ startups' = startups + 1
  /\ seed' = [pc |-> "timer", username |-> name, password |-> password, passwordHash |-> <<>>]
  /\ more' = [more EXCEPT !.adminSessions = [token \in DOMAIN adminSessions |-> 0]]
  /\ UNCHANGED <<admins, resp, notLate, settingsVars>>

\* await storage.getAdminByUsername(adminUsername) and the test of its result
SeedCheck(outcome) ==
  /\ seed.pc = "timer"
  /\ seed' = [seed EXCEPT !.pc = IF outcome = "throws" THEN "failed"
                                 ELSE IF SeedNeeded(seed.username) THEN "hash"
                                 ELSE "done"]
  /\ UNCHANGED <<admins, startups, resp, notLate, settingsVars, moreVars>>

\* await bcrypt.hash(adminPassword, 10)
SeedHash ==
  /\ seed.pc = "hash"
  /\ seed' = [seed EXCEPT !.pc = "create",
                          !.passwordHash = BcryptHash(seed.password, startups)]
  /\ UNCHANGED <<admins, startups, resp, notLate, settingsVars, moreVars>>

Admin(name, hash) == [username |-> name, passwordHash |-> hash, role |-> "admin"]

\* await storage.createAdmin({ username, passwordHash, role: 'admin' })
SeedCreate(outcome) ==
  /\ seed.pc = "create"
  /\ IF outcome = "throws"
     THEN seed' = [seed EXCEPT !.pc = "failed"] /\ UNCHANGED admins
     ELSE /\ admins' = Append(admins, Admin(seed.username, seed.passwordHash))
          /\ seed' = [seed EXCEPT !.pc = "done"]
  /\ UNCHANGED <<startups, resp, notLate, settingsVars, moreVars>>

NextSeed ==
  \/ \E name \in AdminNames, password \in AdminPasswords : Startup(name, password)
  \/ \E outcome \in StorageOutcomes : SeedCheck(outcome)
  \/ SeedHash
  \/ \E outcome \in StorageOutcomes : SeedCreate(outcome)

SpecSeed == Init /\ [][NextSeed]_vars

\* ------------------------------------------------------- admin sessions
MaxAdminSessions == 2
\* the adminSession cookie of a request: a token issued, or 0 for none
AdminCookies == 0..MaxAdminSessions

notAdmin == <<admins, seed, startups, notLate, settingsVars>>

\* bcrypt.compare(password, admin.passwordHash)
BcryptCompare(password, hash) == hash[1] = password

\* res.json({ id, username, role }) of the admin row a, or an error answer when
\* a = 0; cookie is the adminSession cookie sent or set
AdminResp(route, code, a, cookie) ==
  Resp(route, code, NoUser,
       IF a = 0 THEN <<"", cookie>> ELSE <<admins[a].role, cookie>>,
       a, IF a = 0 THEN "" ELSE admins[a].username, code = 200)

\* adminSessions.has(token)
AdminSessionsHas(token) == token \in DOMAIN adminSessions /\ adminSessions[token] # 0

\* POST /api/admin/login
AdminLogin(username, password, outcome) ==
  /\ startups > 0
  /\ Len(adminSessions) < MaxAdminSessions
  /\ LET a == GetAdminByUsername(username) IN
     IF a = 0 \/ ~BcryptCompare(password, admins[a].passwordHash)
     THEN /\ resp' = AdminResp("AdminLogin", 401, 0, 0)
          /\ UNCHANGED more
     ELSE /\ more' = [more EXCEPT !.adminSessions = Append(adminSessions, a)]
          /\ resp' = IF outcome = "throws"
                     THEN AdminResp("AdminLogin", 500, 0, 0)
                     ELSE AdminResp("AdminLogin", 200, a, Len(adminSessions) + 1)
  /\ UNCHANGED notAdmin

\* storage.getAdminByUsername('admin') of GET /api/admin/me
GetAdminForMe(adminId) == GetAdminByUsername("admin")

\* GET /api/admin/me behind requireAdminAuth
AdminMe(cookie) ==
  /\ startups > 0
  /\ resp' = IF ~AdminSessionsHas(cookie)
             THEN AdminResp("AdminMe", 401, 0, cookie)
             ELSE LET a == GetAdminForMe(adminSessions[cookie]) IN
                  IF a = 0 THEN AdminResp("AdminMe", 404, 0, cookie)
                  ELSE AdminResp("AdminMe", 200, a, cookie)
  /\ UNCHANGED <<more, notAdmin>>

\* POST /api/admin/logout
AdminLogout(cookie) ==
  /\ startups > 0
  /\ more' = [more EXCEPT !.adminSessions = IF cookie \in DOMAIN adminSessions
                                            THEN [adminSessions EXCEPT ![cookie] = 0]
                                            ELSE adminSessions]
  /\ resp' = AdminResp("AdminLogout", 200, 0, cookie)
  /\ UNCHANGED notAdmin

NextAdmin ==
  \/ \E name \in AdminNames, password \in AdminPasswords : Startup(name, password)
  \/ SeedCheck("ok")
  \/ SeedHash
  \/ SeedCreate("ok")
  \/ \E name \in AdminNames, password \in AdminPasswords, outcome \in StorageOutcomes :
       AdminLogin(name, password, outcome)
  \/ \E cookie \in AdminCookies : AdminMe(cookie)
  \/ \E cookie \in AdminCookies : AdminLogout(cookie)

SpecAdmin == Init /\ [][NextAdmin]_vars

\* ------------------------------------------------------- server settings
Keys(settings) == {p[1] : p \in settings}

\* deepMerge(target, source) for settings whose values are scalars:
\* output = { ...target }, then output[key] = source[key] for every key of source
DeepMerge(target, source) ==
  {p \in target : p[1] \notin Keys(source)} \cup source

\* a body that sets one key
OneKey(key, value) == {<<key, value>>}

\* `romod_${randomBytes(32).toString("hex")}`: a key no other request draws
NewBotKey(w) == <<"romod", w>>

\* the settings part and the name part of the bodies that are sent
SettingsBodies == {OneKey("autoMod", "v1"), OneKey("logChannel", "v1"),
                   OneKey("logChannel", "v2")}
ServerBodies == {[settings |-> NoSettings, name |-> "n1"],
                 [settings |-> OneKey("autoMod", "v2"), name |-> Absent],
                 [settings |-> OneKey("logChannel", "v2"), name |-> "n1"]}

\* requireAuth has passed for user u; await storage.getServer(serverId) and the
\* ownership test: the handler goes on holding the row it read
ReadServer(route, u, s, settings, name) ==
  /\ Len(writers) < MaxWriters
  /\ IF ownerId[s] # u
     THEN resp' = Err(403, "Not authorized") /\ UNCHANGED writers
     ELSE /\ writers' = Append(writers,
                           [pc |-> "read", route |-> route, serverId |-> s,
                            settings |-> settings, name |-> name,
                            read |-> serverRows[s].settings])
          /\ resp' = NoResp
  /\ UNCHANGED <<serverRows, notLate, seedVars, moreVars>>

\* the updates object the handler hands to storage.updateServer
SettingsUpdate(q) == DeepMerge(q.read, q.settings)

HasSettings(q) == q.settings # NoSettings

\* storage.updateServer(serverId, updates): the given fields replace the stored ones
UpdateServer(row, q) ==
  [settings |-> IF q.route = "server" /\ ~HasSettings(q) THEN row.settings
                ELSE SettingsUpdate(q),
   name |-> IF q.name # Absent THEN q.name ELSE row.name]

\* await storage.updateServer(...) and res.json
WriteServer(w) ==
  /\ writers[w].pc = "read"
  /\ LET q == writers[w] IN
     /\ serverRows' = [serverRows EXCEPT ![q.serverId] = UpdateServer(@, q)]
     /\ writers' = [writers EXCEPT ![w].pc = "done"]
     /\ resp' = Resp(q.route, 200, NoUser, NoId, w, "", FALSE)
  /\ UNCHANGED <<notLate, seedVars, moreVars>>

\* PATCH /api/servers/:serverId/settings
PatchSettings(u, s, body) == ReadServer("settings", u, s, body, Absent)

\* PATCH /api/servers/:serverId
PatchServer(u, s, body) == ReadServer("server", u, s, body.settings, body.name)

\* POST /api/servers/:serverId/reset-bot-key
ResetBotKey(u, s) ==
  ReadServer("reset-bot-key", u, s, OneKey("botKey", NewBotKey(Len(writers) + 1)), Absent)

NextSettings ==
  \/ \E u \in Users, body \in SettingsBodies : PatchSettings(u, "s1", body)
  \/ \E u \in Users, body \in ServerBodies : PatchServer(u, "s1", body)
  \/ \E u \in Users : ResetBotKey(u, "s1")
  \/ \E w \in DOMAIN writers : WriteServer(w)

SpecSettings == Init /\ [][NextSettings]_vars

\* ------------------------------------------------------ WebSocket clients
\* wss.on('connection'): the client joins wsClients and is sent the welcome message
WsConnect(c) ==
  /\ c \notin DOMAIN wsState
  /\ wsState' = [k \in DOMAIN wsState \cup {c} |-> IF k = c THEN "open" ELSE wsState[k]]
  /\ wsInbox' = [k \in DOMAIN wsInbox \cup {c} |->
                   IF k = c THEN <<"connected">> ELSE wsInbox[k]]
  /\ resp' = NoResp
  /\ UNCHANGED notWs

\* the socket of a client leaves the OPEN readyState; its 'close' event has not
\* been handled yet
WsClosing(c) ==
  /\ c \in DOMAIN wsState
  /\ wsState[c] = "open"
  /\ wsState' = [wsState EXCEPT ![c] = "closing"]
  /\ resp' = NoResp
  /\ UNCHANGED <<wsInbox, notWs>>

\* ws.on('close'): wsClients.delete(ws)
WsClose(c) ==
  /\ c \in DOMAIN wsState
  /\ wsState[c] = "closing"
  /\ wsState' = Remove(wsState, c)
  /\ wsInbox' = Remove(wsInbox, c)
  /\ resp' = NoResp
  /\ UNCHANGED notWs

\* clients connecting and closing while the owner of s1 starts shifts through
\* both routes, creates bans and reviews appeals
NextBroadcast ==
  \/ \E c \in WsClients : WsConnect(c)
  \/ \E c \in WsClients : WsClosing(c)
  \/ \E c \in WsClients : WsClose(c)
  \/ StartShift("u1", "s1")
  \/ StartShiftServer("u1", "s1")
  \/ EndShift("u1", "s1")
  \/ \E r \in RobloxUsers : PostBan("u1", "s1", r, NoExpiry)
  \/ \E r \in RobloxUsers : PostAppeal("u2", <<"s1", r>>, "s1")
  \/ \E id \in 1..MaxAppeals, st \in {"approved", "rejected"} : PatchAppeal("u1", id, st)

SpecBroadcast == Init /\ [][NextBroadcast]_vars

\* ------------------------------------------------------- server/env.ts
\* two of the seven names of secretKeys, and a name that is not one of them
secretKeys == {"DATABASE_URL", "PGHOST"}
EnvKeys == secretKeys \cup {"DISCORD_BOT_TOKEN"}
\* process.env as the process starts: per name unset, '' or a value
EnvBefore == [EnvKeys -> {Absent, "", "replit"}]
\* what dotenv parses from .env: per name not defined, defined empty or a value;
\* a missing file defines nothing
EnvFiles == [EnvKeys -> {Absent, "", "dotenv"}]

\* the import of server/env.ts begins
EnvImport(before, file) ==
  /\ env = EnvOff
  /\ more' = [more EXCEPT !.env = [pc |-> "capture", before |-> before, file |-> file, processEnv |-> before,
                                   replitSecrets |-> <<>>]]
  /\ UNCHANGED <<resp, notMore>>

\* if (value !== undefined && value !== '') replitSecrets[key] = value
Captured(penv) ==
  [k \in {key \in secretKeys : penv[key] # Absent /\ penv[key] # ""} |-> penv[k]]

\* else if (value === '') delete process.env[key]
WithoutEmpty(penv) ==
  [k \in EnvKeys |-> IF k \in secretKeys /\ penv[k] = "" THEN Absent ELSE penv[k]]

\* secretKeys.forEach(...)
EnvCapture ==
  /\ env.pc = "capture"
  /\ more' = [more EXCEPT !.env = [env EXCEPT !.pc = "config",
                                              !.replitSecrets = Captured(env.processEnv),
                                              !.processEnv = WithoutEmpty(env.processEnv)]]
  /\ UNCHANGED <<resp, notMore>>

\* dotenv config({path, override: true}): every name the file defines is assigned
Config(penv, file) ==
  [k \in EnvKeys |-> IF file[k] # Absent THEN file[k] ELSE penv[k]]

EnvConfig ==
  /\ env.pc = "config"
  /\ more' = [more EXCEPT !.env = [env EXCEPT !.pc = "restore", !.processEnv = Config(env.processEnv, env.file)]]
  /\ UNCHANGED <<resp, notMore>>

Restore_Skipped(penv, saved) == penv

\* Object.entries(replitSecrets).forEach(([key, value]) => process.env[key] = value)
Restore(penv, saved) ==
  [k \in EnvKeys |-> IF k \in DOMAIN saved THEN saved[k] ELSE penv[k]]

EnvRestore ==
  /\ env.pc = "restore"
  /\ more' = [more EXCEPT !.env = [env EXCEPT !.pc = "loaded", !.processEnv = Restore(env.processEnv, env.replitSecrets)]]
  /\ UNCHANGED <<resp, notMore>>

NextEnv ==
  \/ \E before \in EnvBefore, file \in EnvFiles : EnvImport(before, file)
  \/ EnvCapture
  \/ EnvConfig
  \/ EnvRestore

SpecEnv == Init /\ [][NextEnv]_vars

\* ------------------------------------------- the bans table row by row
MaxBanRows == 3

rowRest == <<now, whVars, ticketVars, shifts, marketVars, authVars, wsVars, listings,
             pageVars, seedVars, settingsVars>>
notBanRows == <<modVars, rowRest>>

\* a row of the table; unbannedViaAppeal is metadata.appealId where the metadata
\* has unbannedViaAppeal, 0 where it has not
BanRow(s, r, active) ==
  [serverId |-> s, robloxUserId |-> r, isActive |-> active, unbannedViaAppeal |-> 0]

\* storage.getBanByRobloxUserId(serverId, robloxUserId) on the rows: the index of
\* a row of the pair, 0 if there is none
GetBanRow(s, r) ==
  IF \E i \in DOMAIN banRows : banRows[i].serverId = s /\ banRows[i].robloxUserId = r
  THEN CHOOSE i \in DOMAIN banRows : banRows[i].serverId = s /\ banRows[i].robloxUserId = r
  ELSE 0

UniqueIndexAllows_Always(s, r) == TRUE

\* CREATE UNIQUE INDEX bans_server_roblox_user_unique ON bans(server_id, roblox_user_id)
UniqueIndexAllows(s, r) == GetBanRow(s, r) = 0

\* await storage.createBan(row): the INSERT, refused by the unique index with an
\* error that the handler's catch answers with 500
CreateBan(route, s, r, active) ==
  IF ~UniqueIndexAllows(s, r)
  THEN resp' = Err(500, "bans_server_roblox_user_unique") /\ UNCHANGED more
  ELSE /\ Len(banRows) < MaxBanRows
       /\ more' = [more EXCEPT !.banRows = Append(banRows, BanRow(s, r, active))]
       /\ resp' = Resp(route, 200, NoUser, <<s, r>>, Len(banRows) + 1, "", FALSE)

\* POST /api/bans
PostBanRow(u, s, r) ==
  /\ UNCHANGED <<inflight, notBanRows>>
  /\ IF ownerId[s] # u
     THEN resp' = Err(403, "Not authorized") /\ UNCHANGED more
     ELSE CreateBan("PostBan", s, r, TRUE)

\* POST /api/moderation/action with actionType ban or tempban, through
\* await storage.getBanByRobloxUserId; actionType warn, whole
ModerationLookup(c, u, s, r, actionType) ==
  /\ inflight[c].pc = "idle"
  /\ UNCHANGED notBanRows
  /\ IF ~IsOwnerOrMember(u, s)
     THEN resp' = Err(403, "Not authorized for this server") /\ UNCHANGED <<more, inflight>>
     ELSE IF actionType = "warn"
     THEN CreateBan("warn", s, r, FALSE) /\ UNCHANGED inflight
     ELSE /\ inflight' = [inflight EXCEPT ![c] =
                            [pc |-> actionType, server |-> s, roblox |-> r,
                             existingBan |-> GetBanRow(s, r)]]
          /\ resp' = NoResp
          /\ UNCHANGED more

\* if (existingBan) await storage.updateBan(existingBan.id, banData)
\* else await storage.createBan(banData)
ModerationStore(c) ==
  /\ inflight[c].pc \in {"ban", "tempban"}
  /\ UNCHANGED notBanRows
  /\ inflight' = [inflight EXCEPT ![c] = IdleConn]
  /\ LET q == inflight[c] IN
     IF q.existingBan # 0
     THEN /\ more' = [more EXCEPT !.banRows = [banRows EXCEPT ![q.existingBan].isActive = TRUE,
                                                              ![q.existingBan].unbannedViaAppeal = 0]]
          /\ resp' = Resp(q.pc, 200, NoUser, <<q.server, q.roblox>>, q.existingBan, "", FALSE)
     ELSE CreateBan(q.pc, q.server, q.roblox, TRUE)

NextBanRows ==
  \/ \E u \in Users, s \in Servers, r \in RobloxUsers : PostBanRow(u, s, r)
  \/ \E c \in Conns, u \in Users, s \in Servers, r \in RobloxUsers,
        a \in {"ban", "tempban", "warn"} : ModerationLookup(c, u, s, r, a)
  \/ \E c \in Conns : ModerationStore(c)

\* ban requests interleaved at their awaits, on the rows of the table
SpecBanRows == Init /\ [][NextBanRows]_vars

\* ---------------------------------- PATCH /api/appeals/:id at its awaits
\* POST /api/appeals on the rows of the bans table
PostAppealRow(banId, s) ==
  /\ UNCHANGED <<bans, more, inflight, rowRest>>
  /\ IF GetBanRow(banId[1], banId[2]) = 0
     THEN resp' = Err(500, "appeals.ban_id REFERENCES bans(id)") /\ UNCHANGED appeals
     ELSE /\ Len(appeals) < MaxAppeals
          /\ appeals' = Append(appeals, Appeal(banId, s))
          /\ resp' = Resp("PostAppeal", 200, NoUser, banId, Len(appeals) + 1, "pending", FALSE)

\* the handler through await storage.getBan(appeal.banId)
PatchAppealBegin(c, u, id, status) ==
  /\ inflight[c].pc = "idle"
  /\ UNCHANGED <<bans, appeals, more, rowRest>>
  /\ IF id \notin DOMAIN appeals
     THEN resp' = Err(404, "Appeal not found") /\ UNCHANGED inflight
     ELSE IF ~AppealAuthorized(u, appeals[id])
     THEN resp' = Err(403, "Not authorized") /\ UNCHANGED inflight
     ELSE IF GetBanRow(appeals[id].banId[1], appeals[id].banId[2]) = 0
     THEN resp' = Err(404, "Associated ban not found") /\ UNCHANGED inflight
     ELSE /\ inflight' = [inflight EXCEPT ![c] =
                            [pc |-> IF status = "approved" THEN "deactivate" ELSE "updateAppeal",
                             user |-> u, appeal |-> id, status |-> status,
                             ban |-> GetBanRow(appeals[id].banId[1], appeals[id].banId[2])]]
          /\ resp' = NoResp

\* a storage call of the handler throws: the catch answers 500
PatchAppealThrows(c) ==
  /\ inflight[c].pc \in {"deactivate", "metadata", "updateAppeal"}
  /\ inflight' = [inflight EXCEPT ![c] = IdleConn]
  /\ resp' = Err(500, "Failed to update appeal")
  /\ UNCHANGED <<bans, appeals, more, rowRest>>

\* await storage.updateBan(ban.id, {isActive: false})
PatchAppealDeactivate(c) ==
  /\ inflight[c].pc = "deactivate"
  /\ more' = [more EXCEPT !.banRows = [banRows EXCEPT ![inflight[c].ban].isActive = FALSE]]
  /\ inflight' = [inflight EXCEPT ![c].pc = "metadata"]
  /\ resp' = NoResp
  /\ UNCHANGED <<bans, appeals, rowRest>>

\* await storage.updateBan(ban.id, {metadata: {..., unbannedViaAppeal: true, appealId}})
PatchAppealMetadata(c) ==
  /\ inflight[c].pc = "metadata"
  /\ more' = [more EXCEPT !.banRows = [banRows EXCEPT ![inflight[c].ban].unbannedViaAppeal = inflight[c].appeal]]
  /\ inflight' = [inflight EXCEPT ![c].pc = "updateAppeal"]
  /\ resp' = NoResp
  /\ UNCHANGED <<bans, appeals, rowRest>>

\* await storage.updateAppeal(id, {status, ...}) and the answer
PatchAppealUpdate(c) ==
  /\ inflight[c].pc = "updateAppeal"
  /\ appeals' = [appeals EXCEPT ![inflight[c].appeal] = AppealUpdate(@, inflight[c].status)]
  /\ inflight' = [inflight EXCEPT ![c] = IdleConn]
  /\ resp' = Resp("PatchAppeal", 200, inflight[c].user, appeals[inflight[c].appeal].banId,
                  inflight[c].appeal, inflight[c].status, FALSE)
  /\ UNCHANGED <<bans, more, rowRest>>

NextAppealRows ==
  \/ \E u \in Users, s \in Servers, r \in RobloxUsers : PostBanRow(u, s, r)
  \/ \E b \in BanIds, s \in Servers : PostAppealRow(b, s)
  \/ \E c \in Conns, u \in Users, id \in 1..MaxAppeals, st \in AppealStatuses :
       PatchAppealBegin(c, u, id, st)
  \/ \E c \in Conns : PatchAppealThrows(c)
  \/ \E c \in Conns : PatchAppealDeactivate(c)
  \/ \E c \in Conns : PatchAppealMetadata(c)
  \/ \E c \in Conns : PatchAppealUpdate(c)

\* appeal reviews interleaved at their awaits, any storage call failing
SpecAppealRows == Init /\ [][NextAppealRows]_vars

\* ------------------------------------------ records under a server
MaxChildRows == 2

\* two of the tables addressed under /api/servers/:serverId/...
ChildKinds == {"members", "invites"}
ChildRoles == {"moderator", "admin"}

notChild == <<modVars, now, whVars, ticketVars, shiftVars, marketVars, authVars, wsVars,
              listings, pageVars, seedVars, settingsVars>>

Child(kind, s, role) == [kind |-> kind, serverId |-> s, role |-> role, exists |-> TRUE]

\* POST /api/servers/:serverId/members and POST /api/servers/:serverId/invites
PostChild(u, s, kind, role) ==
  /\ UNCHANGED notChild
  /\ IF ownerId[s] # u
     THEN resp' = Err(403, "Not authorized") /\ UNCHANGED more
     ELSE /\ Len(childRows) < MaxChildRows
          /\ more' = [more EXCEPT !.childRows = Append(childRows, Child(kind, s, role))]
          /\ resp' = Resp("PostChild", 200, u, NoId, Len(childRows) + 1, s, FALSE)

\* storage.updateServerMember(memberId, ...), storage.deleteServerMember(memberId),
\* storage.deleteInviteCode(inviteId): the row is looked up by its id alone; s is
\* the serverId of the request, which the handler does not pass on
FindsChild(kind, s, id) ==
  id \in DOMAIN childRows /\ childRows[id].exists /\ childRows[id].kind = kind

\* PATCH /api/servers/:serverId/members/:memberId
PatchMember(u, s, id, role) ==
  /\ UNCHANGED notChild
  /\ IF ownerId[s] # u
     THEN resp' = Err(403, "Not authorized") /\ UNCHANGED more
     ELSE IF ~FindsChild("members", s, id)
     THEN resp' = Err(404, "Member not found") /\ UNCHANGED more
     ELSE /\ more' = [more EXCEPT !.childRows = [childRows EXCEPT ![id].role = role]]
          /\ resp' = Resp("PatchMember", 200, u, NoId, id, s, FALSE)

\* DELETE /api/servers/:serverId/members/:memberId and
\* DELETE /api/servers/:serverId/invites/:inviteId
DeleteChild(u, s, kind, id) ==
  /\ UNCHANGED notChild
  /\ IF ownerId[s] # u
     THEN resp' = Err(403, "Not authorized") /\ UNCHANGED more
     ELSE /\ more' = [more EXCEPT !.childRows = IF FindsChild(kind, s, id)
                                                THEN [childRows EXCEPT ![id].exists = FALSE]
                                                ELSE childRows]
          /\ resp' = Resp("DeleteChild", 200, u, NoId, id, s, TRUE)

NextChild ==
  \/ \E u \in Users, s \in Servers, k \in ChildKinds, role \in ChildRoles : PostChild(u, s, k, role)
  \/ \E u \in Users, s \in Servers, id \in 1..MaxChildRows, role \in ChildRoles :
       PatchMember(u, s, id, role)
  \/ \E u \in Users, s \in Servers, k \in ChildKinds, id \in 1..MaxChildRows :
       DeleteChild(u, s, k, id)

SpecChild == Init /\ [][NextChild]_vars

\* ------------------------------------------------- the in-game API
MaxApiKeys == 2

\* everything but the bans, the answer, the WebSocket clients and the keys
notGame == <<appeals, now, whVars, ticketVars, shiftVars, marketVars, authVars, listings,
             pageVars, seedVars, settingsVars>>

\* createHash("sha256").update(apiKey).digest("hex")
Sha256(apiKey) == <<"sha256", apiKey>>

\* the key generated for the row with id i; 0 is a key that was never generated
GameKeys == 0..MaxApiKeys
\* the Authorization header of a request: absent, of another scheme, or Bearer
\* with a key
AuthHeaders == {[scheme |-> Absent, key |-> 0], [scheme |-> "Basic", key |-> 0]}
                 \cup [scheme : {"Bearer"}, key : GameKeys]

ApiKey(s, apiKey) == [serverId |-> s, keyHash |-> Sha256(apiKey), exists |-> TRUE, used |-> FALSE]

\* POST /api/api-keys
PostApiKey(u, s) ==
  /\ UNCHANGED <<bans, notGame>>
  /\ IF ownerId[s] # u
     THEN resp' = Err(403, "Not authorized") /\ UNCHANGED more
     ELSE /\ Len(apiKeyRows) < MaxApiKeys
          /\ more' = [more EXCEPT !.apiKeyRows = Append(apiKeyRows, ApiKey(s, Len(apiKeyRows) + 1))]
          /\ resp' = Resp("PostApiKey", 200, u, NoId, Len(apiKeyRows) + 1, s, FALSE)
  /\ Broadcasts

\* DELETE /api/api-keys/:id
DeleteApiKey(u, id) ==
  /\ UNCHANGED <<bans, notGame>>
  /\ IF id \notin DOMAIN apiKeyRows \/ ~apiKeyRows[id].exists
     THEN resp' = Err(404, "API key not found") /\ UNCHANGED more
     ELSE IF ownerId[apiKeyRows[id].serverId] # u
     THEN resp' = Err(403, "Not authorized") /\ UNCHANGED more
     ELSE /\ more' = [more EXCEPT !.apiKeyRows = [apiKeyRows EXCEPT ![id].exists = FALSE]]
          /\ resp' = Resp("DeleteApiKey", 200, u, NoId, id, "", TRUE)
  /\ Broadcasts

GetApiKeyByHash_Deleted(keyHash) ==
  IF \E i \in DOMAIN apiKeyRows : apiKeyRows[i].keyHash = keyHash
  THEN CHOOSE i \in DOMAIN apiKeyRows : apiKeyRows[i].keyHash = keyHash
  ELSE 0

\* storage.getApiKeyByHash(keyHash): the id of the row, 0 if there is none
GetApiKeyByHash(keyHash) ==
  IF \E i \in DOMAIN apiKeyRows : apiKeyRows[i].exists /\ apiKeyRows[i].keyHash = keyHash
  THEN CHOOSE i \in DOMAIN apiKeyRows : apiKeyRows[i].exists /\ apiKeyRows[i].keyHash = keyHash
  ELSE 0

\* validateApiKey: the id of the key row the request runs under, 0 when it is
\* answered 401
ValidateApiKey(h) ==
  IF h.scheme # "Bearer" THEN 0 ELSE GetApiKeyByHash(Sha256(h.key))

\* the answer of a game route to a request with header h
GameResp(route, code, h, ban, flag) == Resp(route, code, NoUser, ban, h.key, h.scheme, flag)

\* storage.updateApiKeyLastUsed(key.id)
KeysAfterUse(k) == [apiKeyRows EXCEPT ![k].used = TRUE]

\* GET /api/game/check-ban/:robloxUserId ; flag is the isBanned of the answer
GameCheckBan(h, r) ==
  /\ UNCHANGED notGame
  /\ LET k == ValidateApiKey(h) IN
     IF k = 0
     THEN resp' = GameResp("CheckBan", 401, h, NoId, FALSE) /\ UNCHANGED <<bans, more>>
     ELSE /\ more' = [more EXCEPT !.apiKeyRows = KeysAfterUse(k)]
          /\ LET id == GetBanByRobloxUserId(apiKeyRows[k].serverId, r) IN
             IF id = NoId
             THEN resp' = GameResp("CheckBan", 200, h, NoId, FALSE) /\ UNCHANGED bans
             ELSE IF IsExpired(bans[id], now)
             THEN /\ bans' = [bans EXCEPT ![id] = ExpireUpdate(@)]
                  /\ resp' = GameResp("CheckBan", 200, h, id, FALSE)
             ELSE /\ resp' = GameResp("CheckBan", 200, h, id, TRUE)
                  /\ UNCHANGED bans
  /\ Broadcasts

\* storage.getBansByServerId(serverId, true): the active bans of the server
GetBansByServerId(s) ==
  {id \in BanIds : bans[id].exists /\ bans[id].serverId = s /\ bans[id].isActive}

\* GET /api/game/bans ; the answer lists the bans
GameBans(h) ==
  /\ UNCHANGED <<bans, notGame>>
  /\ LET k == ValidateApiKey(h) IN
     IF k = 0
     THEN resp' = GameResp("GameBans", 401, h, {}, FALSE) /\ UNCHANGED more
     ELSE /\ more' = [more EXCEPT !.apiKeyRows = KeysAfterUse(k)]
          /\ resp' = GameResp("GameBans", 200, h, GetBansByServerId(apiKeyRows[k].serverId), TRUE)
  /\ Broadcasts

NextGame ==
  \/ \E u \in Users, s \in Servers : PostApiKey(u, s)
  \/ \E u \in Users, id \in 1..MaxApiKeys : DeleteApiKey(u, id)
  \/ \E h \in AuthHeaders, r \in RobloxUsers : GameCheckBan(h, r)
  \/ \E h \in AuthHeaders : GameBans(h)
  \/ \E s \in Servers, r \in RobloxUsers, e \in {NoExpiry, 1} : PostBan(ownerId[s], s, r, e)
  \/ Tick

SpecGame == Init /\ [][NextGame]_vars

\* ------------------------------------------------ the onboarding page
MaxRequests == 2

notWizard == <<resp, notMore>>

\* what localStorage holds when the page opens: a step below 5, a server id or
\* none, the two required channels or none
SavedStates ==
  [step : 1..4, selectedServerId : {"", "s1"}, reportsChannel : {"", "c1"},
   ticketsChannel : {"", "c2"}]

\* useState(() => getSavedState(...)) for the saved fields, the defaults for the rest
OpenOnboarding(saved) ==
  /\ wizard = WizardClosed
  /\ more' = [more EXCEPT !.wizard = [pc |-> "open", step |-> saved.step,
                                      selectedServerId |-> saved.selectedServerId,
                                      reportsChannel |-> saved.reportsChannel,
                                      ticketsChannel |-> saved.ticketsChannel,
                                      customBotToken |-> "", customBotClientId |-> "",
                                      botTokenFlow |-> [pc |-> "idle"], setupPending |-> 0, sent |-> <<>>, event |-> "open"]]
  /\ UNCHANGED notWizard

\* the effect on [servers, selectedServerId, step] once the server list has
\* loaded: a saved id that is not in the list is cleared and the wizard restarts
ServersLoaded(listed) ==
  /\ wizard.pc = "open"
  /\ more' = [more EXCEPT !.wizard = IF wizard.selectedServerId # "" /\ ~listed
                                     THEN [wizard EXCEPT !.selectedServerId = "",
                                                         !.step = IF @ > 1 THEN 1 ELSE @,
                                                         !.event = "servers"]
                                     ELSE [wizard EXCEPT !.event = "servers"]]
  /\ UNCHANGED notWizard

\* the Select of step 1
SetSelectedServerId(id) ==
  /\ wizard.pc = "open" /\ wizard.step = 1
  /\ more' = [more EXCEPT !.wizard = [wizard EXCEPT !.selectedServerId = id, !.event = "select"]]
  /\ UNCHANGED notWizard

\* handleServerSelect
HandleServerSelect ==
  /\ wizard.pc = "open" /\ wizard.step = 1
  /\ more' = [more EXCEPT !.wizard = [wizard EXCEPT !.step = IF wizard.selectedServerId = "" THEN @ ELSE 2,
                                                    !.event = "handleServerSelect"]]
  /\ UNCHANGED notWizard

\* the Back buttons of steps 2, 3 and 4: setStep(step - 1)
Back ==
  /\ wizard.pc = "open" /\ wizard.step \in 2..4
  /\ more' = [more EXCEPT !.wizard = [wizard EXCEPT !.step = @ - 1, !.event = "back"]]
  /\ UNCHANGED notWizard

\* handleBotInstallConfirm
HandleBotInstallConfirm ==
  /\ wizard.pc = "open" /\ wizard.step = 2
  /\ more' = [more EXCEPT !.wizard = [wizard EXCEPT !.step = 3, !.event = "handleBotInstallConfirm"]]
  /\ UNCHANGED notWizard

\* the channel inputs of step 3
SetChannels(reportsChannel, ticketsChannel) ==
  /\ wizard.pc = "open" /\ wizard.step = 3
  /\ more' = [more EXCEPT !.wizard = [wizard EXCEPT !.reportsChannel = reportsChannel,
                                                    !.ticketsChannel = ticketsChannel,
                                                    !.event = "channels"]]
  /\ UNCHANGED notWizard

ChannelMissing_ReportsOnly(w) == w.reportsChannel = ""

\* !reportsChannel || !ticketsChannel
ChannelMissing(w) == w.reportsChannel = "" \/ w.ticketsChannel = ""

\* handleChannelSetup
HandleChannelSetup ==
  /\ wizard.pc = "open" /\ wizard.step = 3
  /\ more' = [more EXCEPT !.wizard = [wizard EXCEPT !.step = IF ChannelMissing(wizard) THEN @ ELSE 4,
                                                    !.event = "handleChannelSetup"]]
  /\ UNCHANGED notWizard

\* the bot token and client id inputs of step 4
SetCustomBot(token, clientId) ==
  /\ wizard.pc = "open" /\ wizard.step = 4
  /\ more' = [more EXCEPT !.wizard = [wizard EXCEPT !.customBotToken = token, !.customBotClientId = clientId,
                                                    !.event = "bot"]]
  /\ UNCHANGED notWizard

\* a request the page sent; via is the handler that sent it, token the bot token
\* entered when it ran and botTokenOk whether its bot-token request succeeded
Request(route, w, via, token, ok) ==
  [route |-> route, server |-> w.selectedServerId, reportsChannel |-> w.reportsChannel,
   ticketsChannel |-> w.ticketsChannel, via |-> via, token |-> token, botTokenOk |-> ok]

\* setupMutation.mutate(data) with the channels of data: mutationFn throws
\* without a selected server, and sends PATCH .../complete-setup otherwise
SetupMutate(w, data, via, token, ok) ==
  IF w.selectedServerId = ""
  THEN w
  ELSE [w EXCEPT !.setupPending = @ + 1,
                 !.sent = Append(@, Request("complete-setup",
                                            [data EXCEPT !.selectedServerId = w.selectedServerId],
                                            via, token, ok))]

\* handleSkipBotToken ; the button is disabled while setupMutation is pending
HandleSkipBotToken ==
  /\ wizard.pc = "open" /\ wizard.step = 4
  /\ wizard.setupPending = 0
  /\ Len(wizard.sent) < MaxRequests
  /\ LET w == [wizard EXCEPT !.event = "handleSkipBotToken"] IN
     more' = [more EXCEPT !.wizard = IF w.selectedServerId = "" THEN w
                                     ELSE IF ChannelMissing(w) THEN [w EXCEPT !.step = 3]
                                     ELSE SetupMutate(w, w, "skip", w.customBotToken, FALSE)]
  /\ UNCHANGED notWizard

\* handleBotTokenSubmit up to await botTokenMutation.mutateAsync, and to its
\* end when no token was entered; the button is disabled while setupMutation is
\* pending and while both inputs are empty
HandleBotTokenSubmit ==
  /\ wizard.pc = "open" /\ wizard.step = 4
  /\ wizard.setupPending = 0
  /\ wizard.botTokenFlow.pc = "idle"
  /\ ~(wizard.customBotToken = "" /\ wizard.customBotClientId = "")
  /\ Len(wizard.sent) < MaxRequests - 1
  /\ LET w == [wizard EXCEPT !.event = "handleBotTokenSubmit"] IN
     more' = [more EXCEPT !.wizard = IF w.selectedServerId = "" THEN w
                                     ELSE IF w.customBotToken # "" /\ w.customBotClientId = "" THEN w
                                     ELSE IF ChannelMissing(w) THEN [w EXCEPT !.step = 3]
                                     ELSE IF w.customBotToken # ""
                                     THEN [w EXCEPT !.botTokenFlow = [pc |-> "mutateAsync",
                                                                      reportsChannel |-> w.reportsChannel,
                                                                      ticketsChannel |-> w.ticketsChannel,
                                                                      token |-> w.customBotToken],
                                                    !.sent = Append(@, Request("bot-token", w, "save", w.customBotToken, FALSE))]
                                     ELSE SetupMutate(w, w, "save", "", FALSE)]
  /\ UNCHANGED notWizard

\* the bot-token request succeeds: the handler goes on to setupMutation.mutate
\* with the channels it read when it was called
BotTokenSuccess ==
  /\ wizard.pc = "open"
  /\ wizard.botTokenFlow.pc = "mutateAsync"
  /\ more' = [more EXCEPT !.wizard = SetupMutate([wizard EXCEPT !.botTokenFlow = [pc |-> "idle"], !.event = "botTokenSuccess"],
                                                 [wizard EXCEPT !.reportsChannel = wizard.botTokenFlow.reportsChannel,
                                                                !.ticketsChannel = wizard.botTokenFlow.ticketsChannel],
                                                 "save", wizard.botTokenFlow.token, TRUE)]
  /\ UNCHANGED notWizard

\* the bot-token request fails: catch, return
BotTokenError ==
  /\ wizard.pc = "open"
  /\ wizard.botTokenFlow.pc = "mutateAsync"
  /\ more' = [more EXCEPT !.wizard = [wizard EXCEPT !.botTokenFlow = [pc |-> "idle"], !.event = "botTokenError"]]
  /\ UNCHANGED notWizard

\* setupMutation onSuccess: setStep(5)
SetupSuccess ==
  /\ wizard.pc = "open"
  /\ wizard.setupPending > 0
  /\ more' = [more EXCEPT !.wizard = [wizard EXCEPT !.setupPending = @ - 1, !.step = 5, !.event = "setupSuccess"]]
  /\ UNCHANGED notWizard

\* setupMutation onError: a toast
SetupError ==
  /\ wizard.pc = "open"
  /\ wizard.setupPending > 0
  /\ more' = [more EXCEPT !.wizard = [wizard EXCEPT !.setupPending = @ - 1, !.event = "setupError"]]
  /\ UNCHANGED notWizard

NextWizard ==
  \/ \E saved \in SavedStates : OpenOnboarding(saved)
  \/ \E listed \in BOOLEAN : ServersLoaded(listed)
  \/ SetSelectedServerId("s1")
  \/ HandleServerSelect
  \/ Back
  \/ HandleBotInstallConfirm
  \/ \E r \in {"", "c1"}, t \in {"", "c2"} : SetChannels(r, t)
  \/ HandleChannelSetup
  \/ \E token \in {"", "tok"}, id \in {"", "cid"} : SetCustomBot(token, id)
  \/ HandleSkipBotToken
  \/ HandleBotTokenSubmit
  \/ BotTokenSuccess
  \/ BotTokenError
  \/ SetupSuccess
  \/ SetupError

SpecWizard == Init /\ [][NextWizard]_vars

\* ------------------------------------------------------------------ claims

\* C1: an appeal's status changes only from 'pending' to 'approved' or 'rejected';
\* once it is 'approved' or 'rejected' no later request changes it.
C1_SingleTerminalTransition ==
  [][\A a \in DOMAIN appeals :
       appeals'[a].status # appeals[a].status
         => /\ appeals[a].status = "pending"
            /\ appeals'[a].status \in {"approved", "rejected"}]_vars

\* C2: whenever PATCH /api/appeals/:id with status 'approved' is answered with
\* success, the ban the appeal refers to has isActive = false, whatever the
\* outcome of the external unban.
C2_ApprovedBanInactive ==
  (resp.route = "PatchAppeal" /\ resp.code = 200 /\ resp.status = "approved")
    => ~bans[resp.ban].isActive

\* an approval answered 200 on a server with the Roblox API configured whose
\* external unban failed
C2_Witness ==
  /\ resp.route = "PatchAppeal" /\ resp.code = 200 /\ resp.status = "approved"
  /\ robloxConfigured[appeals[resp.id].serverId]
  /\ ~resp.flag
  /\ ~bans[resp.ban].isActive

\* C3 as stated: a ban whose isActive has become false never has isActive = true again.
C3_BanOneWay ==
  [][\A id \in BanIds :
       (bans[id].exists /\ ~bans[id].isActive) => ~bans'[id].isActive]_vars

\* C3 as amended: an inactive ban becomes active again only by a ban or tempban
\* moderation action for its server and player, or by a PATCH /api/bans/:id whose
\* body sets isActive = true; unban, warn, POST /api/bans, appeal updates and
\* check-ban reads leave it inactive.
C3_ReactivatedOnlyByBanOrPatch ==
  [][\A id \in BanIds :
       (bans[id].exists /\ ~bans[id].isActive /\ bans'[id].isActive)
         => /\ resp'.code = 200
            /\ resp'.ban = id
            /\ \/ resp'.route \in {"ban", "tempban"}
               \/ resp'.route = "PatchBan" /\ resp'.status = "true"]_vars

\* a ban or tempban moderation action answered 200 for a ban that an approved
\* appeal had deactivated, and the ban is active again
C3_Witness ==
  /\ resp.route \in {"ban", "tempban"} /\ resp.code = 200
  /\ bans[resp.ban].isActive
  /\ \E a \in DOMAIN appeals :
       appeals[a].banId = resp.ban /\ appeals[a].status = "approved"

\* C4: an appeal approval deactivates a ban only when the approving user owns the
\* server the ban belongs to (ban.serverId).
C4_ApproverOwnsBanServer ==
  (resp.route = "PatchAppeal" /\ resp.code = 200 /\ resp.status = "approved")
    => resp.user = ownerId[bans[resp.ban].serverId]

\* C5: a call makes at most two POST attempts; the second is made only after the
\* first failed and no earlier than 1 s after that failure; and when the call has
\* returned, success = true exactly when one of the attempts got an OK response.
C5_AtMostOneRetry ==
  /\ Len(whLog) <= 2
  /\ Len(whLog) = 2
       => /\ whLog[1].outcome # "ok"
          /\ whLog[2].start >= whLog[1].end + RetryDelayMs
  /\ whPc = "done"
       => /\ whResult \in {"success", "failure"}
          /\ (whResult = "success") <=> (\E i \in DOMAIN whLog : whLog[i].outcome = "ok")

\* a call whose first attempt ran into the 5 s abort and whose retry got an OK response
C5_Witness ==
  /\ whPc = "done"
  /\ Len(whLog) = 2
  /\ whLog[1].outcome = "timeout"
  /\ whLog[2].outcome = "ok"
  /\ whResult = "success"

\* C6: check-ban for a ban whose expiresAt is earlier than now answers
\* isBanned = false and sets the ban's isActive to false; a ban with no expiresAt
\* or with an expiresAt not earlier than now is left unchanged and answered
\* isBanned = true.
C6_LazyExpiryOnRead ==
  [][(resp'.route = "CheckBan" /\ resp'.code = 200 /\ resp'.ban # NoId)
       => LET id == resp'.ban
              b == bans[id]
          IN IF b.expiresAt # NoExpiry /\ b.expiresAt < now
             THEN ~resp'.flag /\ ~bans'[id].isActive
             ELSE resp'.flag /\ bans' = bans]_vars

\* a check-ban read that found an expired ban, answered isBanned = false and left
\* the ban inactive
C6_Witness ==
  /\ resp.route = "CheckBan" /\ resp.code = 200 /\ resp.ban # NoId
  /\ ~resp.flag
  /\ bans[resp.ban].expiresAt # NoExpiry /\ bans[resp.ban].expiresAt < now
  /\ ~bans[resp.ban].isActive

\* C7: every ticket with status 'closed' has closedBy equal to the user whose PATCH
\* moved it from a non-closed status to 'closed', and a non-null closedAt.
C7_ClosedTicketRecordsCloser ==
  \A t \in DOMAIN tickets :
    tickets[t].status = "closed"
      => tickets[t].closedBy = closer[t] /\ tickets[t].closedAt # NoTime

\* C8: for every interleaving of concurrent start requests of one user for one
\* server, at most one shift with status 'active' exists for that pair.
C8_AtMostOneActiveShift ==
  \A u \in Users, s \in Servers : Cardinality(ActiveShifts(u, s)) <= 1

\* C9: a shift changes only from 'active' to 'completed', by an end request
\* answered 200 that sets endTime to the time of the request; the 404 of
\* POST /api/shifts/end and the 400 of POST /api/servers/:serverId/shifts/:shiftId/end
\* leave the shifts unchanged; a completed shift has endTime set.
C9_ShiftActiveToCompleted ==
  [][/\ \A i \in DOMAIN shifts :
          shifts'[i] # shifts[i]
            => /\ shifts[i].status = "active"
               /\ shifts'[i] = [shifts[i] EXCEPT !.status = "completed", !.endTime = now]
               /\ resp'.route \in {"EndShift", "EndShiftServer"}
               /\ resp'.code = 200 /\ resp'.id = i
     /\ resp' = Err(404, "No active shift found") => shifts' = shifts
     /\ resp' = Err(400, "Shift is not active") => shifts' = shifts
     /\ \A i \in DOMAIN shifts' :
          shifts'[i].status = "completed" => shifts'[i].endTime # NoTime]_vars

\* an end request for an already completed shift, answered 400, the shift still
\* completed with its endTime
C9_Witness ==
  /\ resp = Err(400, "Shift is not active")
  /\ \E i \in DOMAIN shifts :
       shifts[i].status = "completed" /\ shifts[i].endTime # NoTime

\* the escrow rows that refer to transaction t
EscrowsOf(t) == {e \in DOMAIN escrows : escrows[e].transactionId = t}

\* C10: every stored transaction has exactly one escrow row whose transactionId,
\* amount and currency are those of the transaction.
C10_EveryTransactionHasItsEscrow ==
  \A t \in DOMAIN transactions :
    /\ Cardinality(EscrowsOf(t)) = 1
    /\ \A e \in EscrowsOf(t) :
         /\ escrows[e].amount = transactions[t].amount
         /\ escrows[e].currency = transactions[t].currency

\* the transaction a marketplace answer is about: resp.id numbers a transaction
\* for the transaction routes and an escrow row for the escrow route
TxOfAnswer(r) == IF r.route = "PatchEscrow" THEN escrows[r.id].transactionId ELSE r.id

\* C11: a PATCH of an escrow or of a transaction is answered 200 only for the
\* buyer or the seller of the transaction, and a request answered 403 leaves the
\* transaction rows, the escrow rows and the transaction log as they were.
C11_OnlyPartiesMutateTrade ==
  [][/\ (resp'.route \in {"PatchTransaction", "PatchEscrow"} /\ resp'.code = 200)
          => resp'.user \in {transactions[TxOfAnswer(resp')].buyerId,
                             transactions[TxOfAnswer(resp')].sellerId}
     /\ resp'.code = 403
          => /\ transactions' = transactions
             /\ escrows' = escrows
             /\ txLogs' = txLogs
     /\ (transactions' # transactions \/ escrows' # escrows \/ txLogs' # txLogs)
          => resp'.code \in {200, 500}]_vars

\* a request answered 403 while a transaction with its escrow is stored and one of
\* the users is neither its buyer nor its seller
C11_Witness ==
  /\ resp = Err(403, "Not authorized")
  /\ \E e \in DOMAIN escrows, u \in Users :
       /\ u # transactions[escrows[e].transactionId].buyerId
       /\ u # transactions[escrows[e].transactionId].sellerId

\* C12: an escrow row has status released only after the buyer of its transaction
\* has sent an update of that escrow (the log records who updated it).
C12_ReleasedAfterBuyerConfirmation ==
  \A e \in DOMAIN escrows :
    escrows[e].status = "released"
      => \E l \in DOMAIN txLogs :
           /\ txLogs[l].transactionId = escrows[e].transactionId
           /\ txLogs[l].action = "escrow_updated"
           /\ txLogs[l].performedBy = transactions[escrows[e].transactionId].buyerId

\* C13: a request is answered as user u only when its cookie is a token that
\* createSession issued for u, whose expiresAt has not passed and that no logout
\* was called with; a request answered 401 and a logout leave the token out of
\* the sessions map, and no logged-out token is in the map.
C13_SessionAuthenticates ==
  [][/\ (resp'.route = "AuthMe" /\ resp'.code = 200)
          => /\ resp'.id \in 1..Len(issued)
             /\ issued[resp'.id].userId = resp'.user
             /\ issued[resp'.id].expiresAt >= clock
             /\ resp'.id \notin loggedOut
     /\ (resp'.route = "AuthMe" /\ resp'.code = 401) => resp'.id \notin DOMAIN sessions'
     /\ resp'.route = "Logout" => resp'.id \notin DOMAIN sessions'
     /\ \A t \in loggedOut' : t \notin DOMAIN sessions']_vars

\* a request carrying an issued token that has passed its expiresAt and was never
\* logged out, answered 401, the token gone from the map
C13_Witness ==
  /\ resp.route = "AuthMe" /\ resp.code = 401
  /\ resp.id \in 1..Len(issued)
  /\ issued[resp.id].expiresAt < clock
  /\ resp.id \notin loggedOut
  /\ resp.id \notin DOMAIN sessions

\* C14: a callback logs a user in only by accepting a nonce that GET
\* /api/auth/discord stored, that has not passed its expiresAt and that no earlier
\* callback accepted, and the nonce leaves oauthStates with it; a nonce found
\* expired leaves oauthStates too; and a callback that redirects with an error
\* creates no user, membership, server or session.
C14_NonceSingleUse ==
  [][/\ (resp'.route = "Callback" /\ resp'.flag)
          => \E n \in 1..nonces :
               /\ n \in DOMAIN oauthStates
               /\ oauthStates[n].expiresAt >= clock
               /\ n \notin consumed
               /\ consumed' = consumed \cup {n}
               /\ oauthStates' = Remove(oauthStates, n)
     /\ (resp'.route = "Callback" /\ resp'.status = "state_expired")
          => /\ resp'.id \in DOMAIN oauthStates
             /\ oauthStates' = Remove(oauthStates, resp'.id)
     /\ (resp'.route = "Callback" /\ ~resp'.flag)
          => /\ userRows' = userRows /\ members' = members
             /\ guildServers' = guildServers
             /\ sessions' = sessions /\ issued' = issued
     /\ (sessions' # sessions \/ issued' # issued) => (resp'.route = "Callback" /\ resp'.flag)
     /\ \A n \in consumed' : n \notin DOMAIN oauthStates']_vars

\* a callback whose state carried a nonce that an earlier callback had accepted,
\* redirected with invalid_state
C14_Witness ==
  /\ resp = CallbackError(resp.id, "invalid_state")
  /\ resp.id \in consumed
  /\ issued # <<>>

EventOfRoute(route) ==
  CASE route \in {"StartShift", "StartShiftServer"} -> "shift_started"
    [] route \in {"PostBan", "ban", "tempban"} -> "ban_created"
    [] route = "PatchAppeal" -> "appeal_updated"

\* C15: every successful shift start through either route, every successful ban
\* creation and every successful appeal update sends its event to every client
\* that is OPEN and sends nothing to a client that is not.
C15_StateChangesBroadcast ==
  [][(resp'.code = 200
        /\ resp'.route \in {"StartShift", "StartShiftServer", "PostBan", "ban", "tempban",
                             "PatchAppeal"})
       => /\ DOMAIN wsInbox' = DOMAIN wsInbox
          /\ \A c \in DOMAIN wsInbox :
               IF wsState[c] = "open"
               THEN /\ Len(wsInbox'[c]) > Len(wsInbox[c])
                    /\ wsInbox'[c][Len(wsInbox'[c])] = EventOfRoute(resp'.route)
               ELSE wsInbox'[c] = wsInbox[c]]_vars

\* C16: every stored listing belongs to a user whose tosAcceptedAt is set.
C16_ListingNeedsAcceptedTerms ==
  \A l \in DOMAIN listings : userRows[listings[l].sellerId].tosAccepted

\* C17: when the accept-tos request issued from the create-listing page succeeds
\* the modal closes and the user stays on /marketplace/create, and the page
\* leaves for /marketplace only when the modal closes without an accepted request.
C17_AcceptAndContinue ==
  [][/\ (location = CreatePath /\ showTosModal
         /\ acceptTosMutation = "pending" /\ acceptTosMutation' = "success")
        => (~showTosModal' /\ location' = CreatePath)
     /\ (location = CreatePath /\ location' = MarketPath)
        => (showTosModal /\ ~showTosModal' /\ acceptTosMutation' # "success")]_vars

AdminsNamed(table, name) == {i \in DOMAIN table : table[i].username = name}

C19_BothChangesStored ==
  \A w1, w2 \in DOMAIN writers :
    (/\ w1 # w2
     /\ writers[w1].pc = "done" /\ writers[w2].pc = "done"
     /\ writers[w1].serverId = writers[w2].serverId
     /\ HasSettings(writers[w1]) /\ HasSettings(writers[w2])
     /\ Keys(writers[w1].settings) \cap Keys(writers[w2].settings) = {})
    => writers[w1].settings \subseteq serverRows[writers[w1].serverId].settings

\* C21: when environment loading has finished, every preserved name that had a
\* non-empty value before the load still has that value, and every preserved name
\* that was unset or empty has the value of .env when .env defines it
C21_SecretsTakePrecedence ==
  env.pc = "loaded" =>
    \A k \in secretKeys :
      /\ (env.before[k] # Absent /\ env.before[k] # "") => env.processEnv[k] = env.before[k]
      /\ ((env.before[k] = Absent \/ env.before[k] = "") /\ env.file[k] # Absent)
           => env.processEnv[k] = env.file[k]

\* a finished load where .env defines both a name that was set and one that was empty
C21_Witness ==
  /\ env.pc = "loaded"
  /\ env.before["DATABASE_URL"] = "replit" /\ env.file["DATABASE_URL"] = "dotenv"
  /\ env.before["PGHOST"] = "" /\ env.file["PGHOST"] = "dotenv"
  /\ env.processEnv["DATABASE_URL"] = "replit"
  /\ env.processEnv["PGHOST"] = "dotenv"

\* the number of server_members rows created through invite i
RECURSIVE RowsOf(_, _)
RowsOf(table, keys) ==
  IF keys = {} THEN 0
  ELSE LET k == CHOOSE x \in keys : TRUE IN table[k] + RowsOf(table, keys \ {k})

Through(i) == RowsOf(members, {k \in DOMAIN members : k[3] = i})

\* C22: an invite with maxUses set never has more memberships created through it
\* than maxUses, and once no login is in progress its currentUses is the number
\* of memberships created through it
C22_InviteNeverOverRedeemed ==
  \A i \in DOMAIN invites :
    invites[i].maxUses # 0 =>
      /\ Through(i) <= invites[i].maxUses
      /\ (\A c \in Conns : inflight[c].pc = "idle") => invites[i].currentUses = Through(i)

\* C25: there is at most one server_members row per (userId, serverId)
C25_OneRowPerMember ==
  \A k1, k2 \in DOMAIN members :
    /\ members[k1] <= 1
    /\ (k1[1] = k2[1] /\ k1[2] = k2[2]) => k1 = k2

\* C23: a login creates a servers row only for a guild that has none and in which
\* the account's permissions include 0x20, with the account as owner; a row that
\* exists stays, and nothing but its name changes
C23_SyncKeepsOwner ==
  [][\A g \in Guilds :
       /\ (~guildServers[g].exists /\ guildServers'[g].exists)
            => /\ resp'.route = "Callback" /\ resp'.flag
               /\ g \in DOMAIN resp'.ban
               /\ resp'.ban[g] \in {32, 40}
               /\ guildServers'[g].ownerId = resp'.user
       /\ guildServers[g].exists
            => /\ guildServers'[g].exists
               /\ [guildServers'[g] EXCEPT !.name = guildServers[g].name] = guildServers[g]]_vars

\* a login of an account that manages a guild whose row another user owns: the
\* owner is kept and the name is the reported one
C23_Witness ==
  /\ resp.route = "Callback" /\ resp.flag
  /\ \E g \in DOMAIN resp.ban :
       /\ resp.ban[g] = 40
       /\ guildServers[g].exists
       /\ guildServers[g].ownerId # resp.user
       /\ guildServers[g].name = resp.status
       /\ resp.status = "n2"

C26_UnbannedMeansApproved ==
  (\A c \in Conns : inflight[c].pc = "idle") =>
    \A i \in DOMAIN banRows :
      banRows[i].unbannedViaAppeal # 0 =>
        /\ ~banRows[i].isActive
        /\ appeals[banRows[i].unbannedViaAppeal].status = "approved"

\* C27: a request changes or deletes a member or invite row only when the row
\* belongs to the server named in the request, whose owner the requester is
C27_ChildChangedByOwnServer ==
  [][\A i \in DOMAIN childRows :
       childRows'[i] # childRows[i]
         => /\ childRows[i].serverId = resp'.status
            /\ ownerId[childRows[i].serverId] = resp'.user]_vars

\* C28: a game request is served only under a Bearer key whose hash is stored in a
\* row that has not been deleted, and then only from the bans of that row's
\* server; any other game request is answered 401 and leaves the bans alone
C28_GameApiScopedByKey ==
  [][resp'.route \in {"CheckBan", "GameBans"} =>
       LET k == resp'.id
           valid == /\ resp'.status = "Bearer"
                    /\ k \in DOMAIN apiKeyRows
                    /\ apiKeyRows[k].exists
       IN /\ resp'.code = IF valid THEN 200 ELSE 401
          /\ ~valid => bans' = bans
          /\ valid =>
               /\ \A id \in BanIds : bans'[id] # bans[id] => id[1] = apiKeyRows[k].serverId
               /\ resp'.route = "CheckBan"
                    => (resp'.ban # NoId
                          => /\ Exists(resp'.ban)
                             /\ resp'.ban[1] = apiKeyRows[k].serverId)
               /\ resp'.route = "GameBans"
                    => resp'.ban = {id \in BanIds : /\ bans[id].exists /\ bans[id].isActive
                                                    /\ id[1] = apiKeyRows[k].serverId}]_vars

\* a key of s1 that has been deleted is presented and answered 401 while s1 has
\* an active ban
C28_Witness ==
  /\ resp.route = "GameBans" /\ resp.code = 401 /\ resp.status = "Bearer"
  /\ resp.id \in DOMAIN apiKeyRows
  /\ ~apiKeyRows[resp.id].exists /\ apiKeyRows[resp.id].used
  /\ apiKeyRows[resp.id].serverId = "s1"
  /\ bans[<<"s1", "r1">>].exists /\ bans[<<"s1", "r1">>].isActive

\* a step in which handleSkipBotToken or handleBotTokenSubmit runs at step 4
Submit ==
  /\ wizard.pc = "open" /\ wizard.step = 4
  /\ wizard'.event \in {"handleSkipBotToken", "handleBotTokenSubmit"}
  /\ wizard' # wizard

C30_AdminSessionRoundTrip ==
  [][/\ (resp'.route = "AdminLogin" /\ resp'.code = 200
          /\ Len(adminSessions') > Len(adminSessions))
          => /\ resp'.ban[2] = Len(adminSessions')
             /\ adminSessions'[resp'.ban[2]] = resp'.id
             /\ resp'.id = GetAdminByUsername(resp'.status)
     /\ (resp'.route = "AdminMe" /\ resp' # resp)
          => IF AdminSessionsHas(resp'.ban[2])
             THEN /\ resp'.code = 200
                  /\ resp'.id = adminSessions[resp'.ban[2]]
                  /\ resp'.status = admins[resp'.id].username
                  /\ resp'.ban[1] = admins[resp'.id].role
             ELSE resp'.code = 401
     /\ (resp'.route = "AdminLogout" /\ resp' # resp)
          => ~(resp'.ban[2] \in DOMAIN adminSessions' /\ adminSessions'[resp'.ban[2]] # 0)]_vars

====
